---- MODULE Spec2Model ----
(***************************************************************************)
(* Model of rpm-lockfile-prototype.                                        *)
(*                                                                         *)
(*   - the rpmdb cache of rpm_lockfile/containers.py (setup_rpmdb,         *)
(*     _online_setup_rpmdb, _maybe_cleanup) as a set of callers working on *)
(*     a shared directory tree, one filesystem call per step;              *)
(*   - the per-architecture thread pool of rpm_lockfile/__init__.py        *)
(*     (main) with its as_completed collection loop and the final write.   *)
(*                                                                         *)
(* Spec     : concurrent callers of setup_rpmdb.                           *)
(* SpecSeq  : the same callers, one setup_rpmdb call at a time.            *)
(* SpecMain : main() from the submit loop to process exit.                 *)
(* SpecResolve : the head of setup_rpmdb, from baseimage to the cache path.*)
(* SpecExtract : extract_image, one line of the Containerfile per step.    *)
(* SpecSubst   : subst_vars, one key per step.                             *)
(* SpecRef     : split_image, make_image_spec and strip_tag.               *)
(* SpecOrigin  : collect_content_origins, one source type per step.        *)
(* SpecFilter  : filter_for_arch, one package entry per step.              *)
(* SpecWrap    : concurrent invocations of the caching wrapper.            *)
(* SpecLayers  : the layer extraction and symlink of _online_setup_rpmdb.  *)
(* SpecHttp    : the HTTP requests of the repofile and compose origins.    *)
(* SpecCompose : ComposeOrigin.collect_from_url, one variant per step.     *)
(***************************************************************************)
EXTENDS Integers, Sequences, FiniteSets, TLC

(***************************************************************************)
(* Bounds                                                                  *)
(***************************************************************************)
NumCallers == 2
NumPids == 2
NumFiles == 2
MaxCalls == 3
MaxArches == 2

(***************************************************************************)
(* Program constants                                                       *)
(***************************************************************************)
USAGE_THRESHOLD == 80

VARIABLES
    \* ---- rpmdb cache (containers.py) ----
    pid,        \* caller -> os.getpid() of the process the caller runs in
    pc,         \* caller -> position inside setup_rpmdb
    req,        \* caller -> <<arch, digest>> of the call in progress
    fs,         \* path -> directory under CACHE_PATH / "rpmdbs"
    dest,       \* caller -> files in the caller's dest_dir
    listing,    \* caller -> entries copytree still has to copy
    copyErr,    \* caller -> copytree collected an error
    usage,      \* caller -> value returned by _get_storage_usage
    rmList,     \* caller -> entries rmtree still has to unlink
    stale,      \* caller -> directory opened by rmtree is no longer at its path
    hit,        \* caller -> cache.exists() was true (line 64)
    renameLost, \* caller -> tmp_cache.rename(cache) raised OSError
    err,        \* caller -> exception that ended the call, "none" if none
    calls,      \* caller -> number of setup_rpmdb calls begun
    copies,     \* <<arch, digest>> -> number of _copy_image calls
    everSettled,\* <<arch, digest>> -> a call returned with usage below the threshold
    settled     \* <<arch, digest>> -> copies[r] when the latest such call returned,
                \*   -1 if none, or if a call measured usage >= threshold since

VARIABLES
    \* ---- main() (rpm_lockfile/__init__.py) ----
    strategy,   \* which rpmdb preparer main() chose
    arches,     \* args.arch or config["arches"]: the requested architectures
    mpc,        \* position of the main thread
    futures,    \* futures[i] = architecture of the i-th submitted task
    task,       \* task[i] = state of the i-th submitted task
    rootDir,    \* rootDir[i] = the TemporaryDirectory of the i-th task
    completed,  \* indices of finished tasks, in finishing order
    atStart,    \* tasks already finished when as_completed(futures) was called
    yielded,    \* futures the collection loop has taken from as_completed
    data,       \* data["arches"]
    outfile,    \* args.outfile
    raised,     \* errors carried by the exception that leaves main()
    exitCode    \* exit status of the process, -1 while it runs

mainVars == <<strategy, arches, mpc, futures, task, rootDir, completed, atStart,
              yielded, data, outfile, raised, exitCode>>

cacheVars == <<pid, pc, req, fs, dest, listing, copyErr, usage, rmList, stale,
               hit, renameLost, err, calls, copies, everSettled, settled>>

VARIABLES
    \* ---- head of setup_rpmdb (containers.py lines 48-69) ----
    given,      \* the parts the caller's image reference is made of
    baseimage,  \* the image reference passed to setup_rpmdb, as characters
    rpc,        \* position inside the head of setup_rpmdb
    image,      \* local variable image
    digest,     \* local variable digest, None when there is none
    inspected,  \* number of utils.inspect_image calls made
    cacheKey,   \* last component of the cache path
    onlineRef,  \* reference _online_setup_rpmdb was called with, None if it was not
    arch,       \* the architecture passed to setup_rpmdb
    cachePath,  \* local variable cache, as path components, None before line 63
    copyArch    \* architecture _copy_image was called with, "" if it was not

resolveVars == <<given, baseimage, rpc, image, digest, inspected, cacheKey, onlineRef,
                 arch, cachePath, copyArch>>

VARIABLES
    \* ---- extract_image (rpm_lockfile/utils.py) ----
    containerfile,  \* the lines of the file, instruction by instruction
    stage_num,      \* filter argument stage_num
    stage_name,     \* filter argument stage_name
    image_pattern,  \* filter argument image_pattern
    lineNo,         \* number of the line the loop reads next
    baseimg,        \* local variable baseimg
    stages,         \* local variable stages
    global_args,    \* local variable global_args
    stage_args,     \* local variable stage_args
    in_stage,       \* local variable in_stage
    stage_bases,    \* local variable stage_bases
    outcome,        \* how the call ended: value returned or error raised
    fromLog         \* per FROM line read so far: arguments in scope and images

extractVars == <<containerfile, stage_num, stage_name, image_pattern, lineNo, baseimg,
                 stages, global_args, stage_args, in_stage, stage_bases, outcome,
                 fromLog>>

VARIABLES
    \* ---- subst_vars (rpm_lockfile/utils.py) ----
    template,     \* argument template, as characters
    svars,        \* argument vars: the (key, value) pairs in the dict's order
    spos,         \* number of the pair the loop takes next
    substituted   \* local variable template, rebound by every iteration

substVars == <<template, svars, spos, substituted>>

VARIABLES
    \* ---- split_image, make_image_spec, strip_tag (rpm_lockfile/utils.py) ----
    parts,        \* a repository, a tag and a digest, None for an absent part
    image_spec,   \* the reference repo[:tag][@digest] written for parts
    splitOut,     \* split_image(image_spec)
    respec,       \* make_image_spec(*split_image(image_spec))
    madeSpec,     \* make_image_spec(repo, tag, digest) of parts
    resplit,      \* split_image(make_image_spec(repo, tag, digest))
    stripped      \* strip_tag(image_spec)

refVars == <<parts, image_spec, splitOut, respec, madeSpec, resplit, stripped>>

VARIABLES
    \* ---- collect_content_origins (rpm_lockfile/__init__.py) ----
    origins,      \* config["contentOrigin"]: (source_type, source_data) in order
    opos,         \* number of the item the loop takes next
    repos,        \* local variable repos
    collectLog,   \* per item taken: what construction and collection did
    oerr          \* exception that left collect_content_origins, "none" if none

originVars == <<origins, opos, repos, collectLog, oerr>>

VARIABLES
    \* ---- filter_for_arch (rpm_lockfile/__init__.py) ----
    farch,        \* argument arch
    pkgs,         \* argument pkgs
    fpos,         \* number of the entry the loop takes next
    kept          \* the names yielded so far

filterVars == <<farch, pkgs, fpos, kept>>

VARIABLES
    \* ---- caching wrapper (rpm_lockfile/caching_wrapper.py) ----
    argv,         \* invocation -> the extra arguments and the input file content
    wpc,          \* invocation -> position inside main()
    cache_file,   \* invocation -> local variable cache_file, None before line 31
    results,      \* the files under CACHE_PATH / "results"
    resolverRuns, \* invocation -> the command lines passed to utils.logged_run
    sawCache,     \* invocation -> what cache_file.exists() returned
    outp          \* invocation -> content of args.outfile, NoFile while absent

wrapVars == <<argv, wpc, cache_file, results, resolverRuns, sawCache, outp>>

VARIABLES
    \* ---- layer extraction of _online_setup_rpmdb (containers.py) ----
    manifest,     \* manifest["layers"]: the members of each layer archive
    layerNo,      \* number of the layer the loop takes next
    destTree,     \* the files under dest_dir: (path, content) pairs
    dbpaths,      \* local variable dbpaths
    layerErr,     \* archive.extractall raised
    rpmdbPath,    \* utils.RPMDB_PATH
    links,        \* the symlinks under dest_dir: (path, target) pairs
    treeRoot,     \* the directory the extracted tree is in
    copied,       \* the files copytree wrote into the caller's directory
    layerPc       \* position after the layer loop

layerVars ==
    <<manifest, layerNo, destTree, dbpaths, layerErr,
      rpmdbPath, links, treeRoot, copied, layerPc>>

VARIABLES
    \* ---- HTTP requests of the content origins (repofiles.py, composes.py) ----
    hsources,     \* the sources to collect: their kind and how the server behaves
    hpos,         \* number of the source collected next
    hreq,         \* the request in flight, NoRequest if none
    elapsed,      \* seconds the request has waited in its current phase
    hpc,          \* position of the collector
    issued        \* the requests passed to session.get so far

httpVars == <<hsources, hpos, hreq, elapsed, hpc, issued>>

VARIABLES
    \* ---- ComposeOrigin.collect_from_url (composes.py) ----
    compose,      \* the productmd.Compose object
    vpos,         \* number of the variant the loop takes next
    crepos,       \* the Repo objects yielded so far
    cerr          \* exception raised by the generator, "none" if none

composeVars == <<compose, vpos, crepos, cerr>>

utilVars ==
    <<substVars, refVars, originVars, filterVars, wrapVars, layerVars,
      httpVars, composeVars>>

nonCacheVars == <<mainVars, resolveVars, extractVars, utilVars>>

nonMainVars == <<cacheVars, resolveVars, extractVars, utilVars>>

nonResolveVars == <<cacheVars, mainVars, extractVars, utilVars>>

nonExtractVars == <<cacheVars, mainVars, resolveVars, utilVars>>

coreVars == <<cacheVars, mainVars, resolveVars, extractVars>>

nonSubstVars ==
    <<coreVars, refVars, originVars, filterVars, wrapVars, layerVars,
      httpVars, composeVars>>

nonRefVars ==
    <<coreVars, substVars, originVars, filterVars, wrapVars, layerVars,
      httpVars, composeVars>>

nonOriginVars ==
    <<coreVars, substVars, refVars, filterVars, wrapVars, layerVars,
      httpVars, composeVars>>

nonFilterVars ==
    <<coreVars, substVars, refVars, originVars, wrapVars, layerVars,
      httpVars, composeVars>>

nonWrapVars ==
    <<coreVars, substVars, refVars, originVars, filterVars, layerVars,
      httpVars, composeVars>>

nonLayerVars ==
    <<coreVars, substVars, refVars, originVars, filterVars, wrapVars,
      httpVars, composeVars>>

nonHttpVars ==
    <<coreVars, substVars, refVars, originVars, filterVars, wrapVars, layerVars,
      composeVars>>

nonComposeVars ==
    <<coreVars, substVars, refVars, originVars, filterVars, wrapVars, layerVars,
      httpVars>>

vars == <<cacheVars, mainVars, resolveVars, extractVars, utilVars>>

(***************************************************************************)
(* Directory tree under CACHE_PATH / "rpmdbs"                              *)
(***************************************************************************)
Callers == 1..NumCallers
Pids == 1..NumPids

\* (arch, digest) pairs a caller can ask for
Requests == {<<"x86_64", "sha256:a">>, <<"x86_64", "sha256:b">>}

\* the rpmdb files of the image with the given digest
Content(d) == {<<d, n>> : n \in 1..NumFiles}

\* callers are threads of processes: callers of one process share its pid. The
\* processes are numbered in the order of their first caller.
ProcessAssignments ==
    {f \in [Callers -> Pids] :
        \A c \in Callers : f[c] = 1 \/ \E d \in 1..(c - 1) : f[d] = f[c] - 1}

Absent == [exists |-> FALSE, files |-> {}]
Dir(files) == [exists |-> TRUE, files |-> files]

\* cache = utils.CACHE_PATH / "rpmdbs" / arch / digest; suffix 0 is "no suffix"
CachePath(r) == <<r[1], r[2], 0>>

\* tmp_cache = cache.with_suffix(f".{os.getpid()}")
TmpPath(r, p) == <<r[1], r[2], p>>

Paths == {CachePath(r) : r \in Requests} \cup {TmpPath(r, p) : r \in Requests, p \in Pids}

NoUsage == -1
UsageValues == {NoUsage, USAGE_THRESHOLD - 1, USAGE_THRESHOLD}

\* mutant: the threshold itself is not enough to trigger the cleanup
ShouldCleanupAbove(u) == u # NoUsage /\ u # 0 /\ u > USAGE_THRESHOLD

\* if usage and usage >= USAGE_THRESHOLD
ShouldCleanup(u) == u # NoUsage /\ u # 0 /\ u >= USAGE_THRESHOLD

Finished(c) == pc[c] \in {"idle", "returned", "failed"}

TotalCalls == LET RECURSIVE Sum(_)
                  Sum(n) == IF n = 0 THEN 0 ELSE calls[n] + Sum(n - 1)
              IN Sum(NumCallers)

CacheInit ==
    /\ pid \in ProcessAssignments
    /\ pc = [c \in Callers |-> "idle"]
    /\ req = [c \in Callers |-> <<"x86_64", "sha256:a">>]
    /\ fs = [p \in Paths |-> Absent]
    /\ dest = [c \in Callers |-> {}]
    /\ listing = [c \in Callers |-> {}]
    /\ copyErr = [c \in Callers |-> FALSE]
    /\ usage = [c \in Callers |-> NoUsage]
    /\ rmList = [c \in Callers |-> {}]
    /\ stale = [c \in Callers |-> FALSE]
    /\ hit = [c \in Callers |-> FALSE]
    /\ renameLost = [c \in Callers |-> FALSE]
    /\ calls = [c \in Callers |-> 0]
    /\ copies = [r \in Requests |-> 0]
    /\ err = [c \in Callers |-> "none"]
    /\ everSettled = [r \in Requests |-> FALSE]
    /\ settled = [r \in Requests |-> -1]

\* main() is not running
MainParked ==
    /\ strategy = "none"
    /\ arches = <<>>
    /\ mpc = "parked"
    /\ futures = <<>>
    /\ task = <<>>
    /\ rootDir = <<>>
    /\ completed = <<>>
    /\ atStart = {}
    /\ yielded = {}
    /\ data = <<>>
    /\ outfile = [written |-> FALSE, arches |-> <<>>]
    /\ raised = {}
    /\ exitCode = -1

\* no setup_rpmdb head is being traced
ResolveParked ==
    /\ given = <<>>
    /\ baseimage = <<>>
    /\ rpc = "parked"
    /\ image = <<>>
    /\ digest = <<>>
    /\ inspected = 0
    /\ cacheKey = <<>>
    /\ onlineRef = <<>>
    /\ arch = ""
    /\ cachePath = <<>>
    /\ copyArch = ""

\* extract_image is not running
ExtractParked ==
    /\ containerfile = <<>>
    /\ stage_num = [given |-> FALSE, v |-> 0]
    /\ stage_name = [given |-> FALSE, v |-> ""]
    /\ image_pattern = [given |-> FALSE, v |-> <<>>]
    /\ lineNo = 0
    /\ baseimg = <<>>
    /\ stages = 0
    /\ global_args = <<>>
    /\ stage_args = <<>>
    /\ in_stage = FALSE
    /\ stage_bases = <<>>
    /\ outcome = [kind |-> "parked", image |-> <<>>, name |-> ""]
    /\ fromLog = <<>>

\* subst_vars is not running
SubstParked ==
    /\ template = <<>>
    /\ svars = <<>>
    /\ spos = 0
    /\ substituted = <<>>

\* no image reference is being taken apart
RefParked ==
    /\ parts = <<>>
    /\ image_spec = <<>>
    /\ splitOut = <<>>
    /\ respec = <<>>
    /\ madeSpec = <<>>
    /\ resplit = <<>>
    /\ stripped = <<>>

\* collect_content_origins is not running
OriginParked ==
    /\ origins = <<>>
    /\ opos = 0
    /\ repos = <<>>
    /\ collectLog = <<>>
    /\ oerr = "none"

\* filter_for_arch is not running
FilterParked ==
    /\ farch = ""
    /\ pkgs = <<>>
    /\ fpos = 0
    /\ kept = <<>>

\* no caching wrapper is running
WrapParked ==
    /\ argv = <<>>
    /\ wpc = <<>>
    /\ cache_file = <<>>
    /\ results = {}
    /\ resolverRuns = <<>>
    /\ sawCache = <<>>
    /\ outp = <<>>

\* no image is being extracted
LayersParked ==
    /\ manifest = <<>>
    /\ layerNo = 0
    /\ destTree = {}
    /\ dbpaths = {}
    /\ layerErr = FALSE
    /\ rpmdbPath = <<>>
    /\ links = {}
    /\ treeRoot = <<>>
    /\ copied = {}
    /\ layerPc = "parked"

\* no content origin is issuing requests
HttpParked ==
    /\ hsources = <<>>
    /\ hpos = 0
    /\ hreq = <<>>
    /\ elapsed = 0
    /\ hpc = "parked"
    /\ issued = <<>>

\* no compose is being read
ComposeParked ==
    /\ compose = <<>>
    /\ vpos = 0
    /\ crepos = <<>>
    /\ cerr = "none"

CoreParked == MainParked /\ ResolveParked /\ ExtractParked

UtilsParked ==
    /\ SubstParked /\ RefParked /\ OriginParked /\ FilterParked /\ WrapParked /\ LayersParked
    /\ HttpParked /\ ComposeParked

Init == CacheInit /\ MainParked /\ ResolveParked /\ ExtractParked /\ UtilsParked

(***************************************************************************)
(* setup_rpmdb, one filesystem call per action                             *)
(***************************************************************************)
Cache(c) == CachePath(req[c])
Tmp(c) == TmpPath(req[c], pid[c])

\* the call goes on at position l
Goto(c, l) == pc' = [pc EXCEPT ![c] = l] /\ err' = err

\* the call ends with exception e propagating out of setup_rpmdb
Raise(c, e) == pc' = [pc EXCEPT ![c] = "failed"] /\ err' = [err EXCEPT ![c] = e]

\* callers whose rmtree holds the directory at path p open
Holders(p) == {d \in Callers : pc[d] \in {"rm_scan", "rm_unlink", "rm_rmdir"}
                               /\ CachePath(req[d]) = p}

\* the directory that was at path p is gone (removed, or replaced by a rename)
MarkStale(p) == [d \in Callers |-> IF d \in Holders(p) THEN TRUE ELSE stale[d]]

\* a call of setup_rpmdb(dest_dir, baseimage, arch) with a fresh dest_dir
BeginAcquire(c, r) ==
    /\ Finished(c)
    /\ TotalCalls < MaxCalls
    /\ pc' = [pc EXCEPT ![c] = "exists"]
    /\ err' = [err EXCEPT ![c] = "none"]
    /\ req' = [req EXCEPT ![c] = r]
    /\ dest' = [dest EXCEPT ![c] = {}]
    /\ listing' = [listing EXCEPT ![c] = {}]
    /\ copyErr' = [copyErr EXCEPT ![c] = FALSE]
    /\ usage' = [usage EXCEPT ![c] = NoUsage]
    /\ rmList' = [rmList EXCEPT ![c] = {}]
    /\ stale' = [stale EXCEPT ![c] = FALSE]
    /\ hit' = [hit EXCEPT ![c] = FALSE]
    /\ renameLost' = [renameLost EXCEPT ![c] = FALSE]
    /\ calls' = [calls EXCEPT ![c] = @ + 1]
    /\ UNCHANGED <<pid, fs, copies, everSettled, settled>>
    /\ UNCHANGED nonCacheVars

\* mutant: the cached entry is not looked for, every call populates
CacheExistsSkipped(c) ==
    /\ pc[c] = "exists"
    /\ hit' = [hit EXCEPT ![c] = FALSE]
    /\ Goto(c, "mkdir")
    /\ UNCHANGED <<pid, req, fs, dest, listing, copyErr, usage, rmList, stale,
                   renameLost, calls, copies, everSettled, settled>>
    /\ UNCHANGED nonCacheVars

\* if not cache.exists():
CacheExists(c) ==
    /\ pc[c] = "exists"
    /\ hit' = [hit EXCEPT ![c] = fs[Cache(c)].exists]
    /\ Goto(c, IF fs[Cache(c)].exists THEN "copytree" ELSE "mkdir")
    /\ UNCHANGED <<pid, req, fs, dest, listing, copyErr, usage, rmList, stale,
                   renameLost, calls, copies, everSettled, settled>>
    /\ UNCHANGED nonCacheVars

\* dest_dir.mkdir(parents=True): FileExistsError when tmp_cache is there
Mkdir(c) ==
    /\ pc[c] = "mkdir"
    /\ IF fs[Tmp(c)].exists
       THEN /\ Raise(c, "FileExistsError")
            /\ fs' = fs
       ELSE /\ Goto(c, "copy_image")
            /\ fs' = [fs EXCEPT ![Tmp(c)] = Dir({})]
    /\ UNCHANGED <<pid, req, dest, listing, copyErr, usage, rmList, stale, hit,
                   renameLost, calls, copies, everSettled, settled>>
    /\ UNCHANGED nonCacheVars

\* _copy_image(baseimage, arch, tmpdir) returns
CopyImage(c) ==
    /\ pc[c] = "copy_image"
    /\ copies' = [copies EXCEPT ![req[c]] = @ + 1]
    /\ Goto(c, "extract")
    /\ UNCHANGED <<pid, req, fs, dest, listing, copyErr, usage, rmList, stale, hit,
                   renameLost, calls, everSettled, settled>>
    /\ UNCHANGED nonCacheVars

\* _copy_image raises (skopeo exits non-zero): tmp_cache stays behind
CopyImageFails(c) ==
    /\ pc[c] = "copy_image"
    /\ copies' = [copies EXCEPT ![req[c]] = @ + 1]
    /\ Raise(c, "CalledProcessError")
    /\ UNCHANGED <<pid, req, fs, dest, listing, copyErr, usage, rmList, stale, hit,
                   renameLost, calls, everSettled, settled>>
    /\ UNCHANGED nonCacheVars

\* archive.extractall(path=dest_dir, filter=filter_rpmdb): one more file
ExtractFile(c) ==
    /\ pc[c] = "extract"
    /\ LET todo == Content(req[c][2]) \ fs[Tmp(c)].files IN
       IF todo = {}
       THEN /\ Goto(c, "rename")
            /\ fs' = fs
       ELSE \E f \in todo :
            /\ \A g \in todo : f[2] <= g[2]
            /\ fs' = [fs EXCEPT ![Tmp(c)] = Dir(@.files \cup {f})]
            /\ UNCHANGED <<pc, err>>
    /\ UNCHANGED <<pid, req, dest, listing, copyErr, usage, rmList, stale, hit,
                   renameLost, calls, copies, everSettled, settled>>
    /\ UNCHANGED nonCacheVars

\* tarfile.open / extractall raises part-way
ExtractFails(c) ==
    /\ pc[c] = "extract"
    /\ Raise(c, "TarError")
    /\ UNCHANGED <<pid, req, fs, dest, listing, copyErr, usage, rmList, stale, hit,
                   renameLost, calls, copies, everSettled, settled>>
    /\ UNCHANGED nonCacheVars

\* os.rename of a directory: replaces a missing or empty target, ENOTEMPTY otherwise
RenameSucceeds(target) == ~target.exists \/ target.files = {}

\* try: tmp_cache.rename(cache) except OSError: pass
Rename(c) ==
    /\ pc[c] = "rename"
    /\ IF RenameSucceeds(fs[Cache(c)])
       THEN /\ fs' = [fs EXCEPT ![Cache(c)] = fs[Tmp(c)], ![Tmp(c)] = Absent]
            /\ stale' = MarkStale(Cache(c))
            /\ renameLost' = renameLost
       ELSE /\ fs' = fs
            /\ stale' = stale
            /\ renameLost' = [renameLost EXCEPT ![c] = TRUE]
    /\ Goto(c, "copytree")
    /\ UNCHANGED <<pid, req, dest, listing, copyErr, usage, rmList, hit, calls,
                   copies, everSettled, settled>>
    /\ UNCHANGED nonCacheVars

\* shutil.copytree(cache, dest_dir, dirs_exist_ok=True): os.scandir(src)
CopytreeScan(c) ==
    /\ pc[c] = "copytree"
    /\ IF fs[Cache(c)].exists
       THEN /\ listing' = [listing EXCEPT ![c] = fs[Cache(c)].files]
            /\ Goto(c, "copying")
       ELSE /\ listing' = listing
            /\ Raise(c, "FileNotFoundError")
    /\ UNCHANGED <<pid, req, fs, dest, copyErr, usage, rmList, stale, hit,
                   renameLost, calls, copies, everSettled, settled>>
    /\ UNCHANGED nonCacheVars

\* copytree copies one listed entry by path; a missing one is collected as an
\* error and raised as shutil.Error once every entry was tried
CopytreeCopy(c) ==
    /\ pc[c] = "copying"
    /\ IF listing[c] = {}
       THEN /\ IF copyErr[c] THEN Raise(c, "shutil.Error") ELSE Goto(c, "df")
            /\ UNCHANGED <<dest, listing, copyErr>>
       ELSE \E f \in listing[c] :
            /\ listing' = [listing EXCEPT ![c] = @ \ {f}]
            /\ IF f \in fs[Cache(c)].files
               THEN /\ dest' = [dest EXCEPT ![c] = @ \cup {f}]
                    /\ copyErr' = copyErr
               ELSE /\ dest' = dest
                    /\ copyErr' = [copyErr EXCEPT ![c] = TRUE]
            /\ UNCHANGED <<pc, err>>
    /\ UNCHANGED <<pid, req, fs, usage, rmList, stale, hit, renameLost, calls,
                   copies, everSettled, settled>>
    /\ UNCHANGED nonCacheVars

\* _maybe_cleanup: usage = _get_storage_usage(directory), df fails on a missing
\* directory; setup_rpmdb returns unless the usage asks for a cleanup
DiskUsage(c) ==
    /\ pc[c] = "df"
    /\ \E u \in UsageValues :
        /\ ~fs[Cache(c)].exists => u = NoUsage
        /\ usage' = [usage EXCEPT ![c] = u]
        /\ IF ShouldCleanup(u)
           THEN /\ Goto(c, "rmtree")
                /\ settled' = [settled EXCEPT ![req[c]] = -1]
                /\ everSettled' = everSettled
           ELSE /\ Goto(c, "returned")
                /\ settled' = [settled EXCEPT ![req[c]] = copies[req[c]]]
                /\ everSettled' = [everSettled EXCEPT ![req[c]] = TRUE]
    /\ UNCHANGED <<pid, req, fs, dest, listing, copyErr, rmList, stale, hit,
                   renameLost, calls, copies>>
    /\ UNCHANGED nonCacheVars

\* shutil.rmtree(directory): open the directory
RmtreeOpen(c) ==
    /\ pc[c] = "rmtree"
    /\ IF fs[Cache(c)].exists THEN Goto(c, "rm_scan") ELSE Raise(c, "FileNotFoundError")
    /\ stale' = [stale EXCEPT ![c] = FALSE]
    /\ UNCHANGED <<pid, req, fs, dest, listing, copyErr, usage, rmList, hit,
                   renameLost, calls, copies, everSettled, settled>>
    /\ UNCHANGED nonCacheVars

\* rmtree: os.scandir of the opened directory
RmtreeScan(c) ==
    /\ pc[c] = "rm_scan"
    /\ rmList' = [rmList EXCEPT ![c] = IF stale[c] THEN {} ELSE fs[Cache(c)].files]
    /\ Goto(c, "rm_unlink")
    /\ UNCHANGED <<pid, req, fs, dest, listing, copyErr, usage, stale, hit,
                   renameLost, calls, copies, everSettled, settled>>
    /\ UNCHANGED nonCacheVars

\* rmtree: os.unlink(name, dir_fd=fd) of one listed entry
RmtreeUnlink(c) ==
    /\ pc[c] = "rm_unlink"
    /\ IF rmList[c] = {}
       THEN /\ Goto(c, "rm_rmdir")
            /\ UNCHANGED <<fs, rmList>>
       ELSE \E f \in rmList[c] :
            IF ~stale[c] /\ f \in fs[Cache(c)].files
            THEN /\ fs' = [fs EXCEPT ![Cache(c)] = Dir(@.files \ {f})]
                 /\ rmList' = [rmList EXCEPT ![c] = @ \ {f}]
                 /\ UNCHANGED <<pc, err>>
            ELSE /\ fs' = fs
                 /\ rmList' = rmList
                 /\ Raise(c, "FileNotFoundError")
    /\ UNCHANGED <<pid, req, dest, listing, copyErr, usage, stale, hit,
                   renameLost, calls, copies, everSettled, settled>>
    /\ UNCHANGED nonCacheVars

\* mutant: the cleanup removes the whole architecture directory
RmtreeRmdirArchDir(c) ==
    /\ pc[c] = "rm_rmdir"
    /\ IF fs[Cache(c)].exists /\ fs[Cache(c)].files = {}
       THEN /\ fs' = [p \in Paths |-> IF p[1] = req[c][1] THEN Absent ELSE fs[p]]
            /\ stale' = MarkStale(Cache(c))
            /\ Goto(c, "returned")
       ELSE /\ fs' = fs
            /\ stale' = stale
            /\ Raise(c, "OSError")
    /\ UNCHANGED <<pid, req, dest, listing, copyErr, usage, rmList, hit,
                   renameLost, calls, copies, everSettled, settled>>
    /\ UNCHANGED nonCacheVars

\* rmtree: os.rmdir(path) of the top directory, then setup_rpmdb returns
RmtreeRmdir(c) ==
    /\ pc[c] = "rm_rmdir"
    /\ IF fs[Cache(c)].exists /\ fs[Cache(c)].files = {}
       THEN /\ fs' = [fs EXCEPT ![Cache(c)] = Absent]
            /\ stale' = MarkStale(Cache(c))
            /\ Goto(c, "returned")
       ELSE /\ fs' = fs
            /\ stale' = stale
            /\ Raise(c, "OSError")
    /\ UNCHANGED <<pid, req, dest, listing, copyErr, usage, rmList, hit,
                   renameLost, calls, copies, everSettled, settled>>
    /\ UNCHANGED nonCacheVars

Step(c) ==
    \/ CacheExists(c)
    \/ Mkdir(c)
    \/ CopyImage(c)
    \/ CopyImageFails(c)
    \/ ExtractFile(c)
    \/ ExtractFails(c)
    \/ Rename(c)
    \/ CopytreeScan(c)
    \/ CopytreeCopy(c)
    \/ DiskUsage(c)
    \/ RmtreeOpen(c)
    \/ RmtreeScan(c)
    \/ RmtreeUnlink(c)
    \/ RmtreeRmdir(c)

Next ==
    \E c \in Callers :
        \/ \E r \in Requests : BeginAcquire(c, r)
        \/ Step(c)

Spec == Init /\ [][Next]_vars

\* one setup_rpmdb call at a time
NextSeq ==
    \E c \in Callers :
        \/ \E r \in Requests : (\A d \in Callers : Finished(d)) /\ BeginAcquire(c, r)
        \/ Step(c)

SpecSeq == Init /\ [][NextSeq]_vars

(***************************************************************************)
(* main(): the thread pool of per-architecture tasks                       *)
(***************************************************************************)
ArchNames == {"aarch64", "ppc64le", "x86_64"}

\* position of an architecture name in Python's string order
ArchRank(a) == CASE a = "aarch64" -> 1 [] a = "ppc64le" -> 2 [] a = "x86_64" -> 3

RECURSIVE Insert(_, _)
Insert(a, s) ==
    IF s = <<>> THEN <<a>>
    ELSE IF ArchRank(a) < ArchRank(Head(s)) THEN <<a>> \o s
    ELSE <<Head(s)>> \o Insert(a, Tail(s))

\* sorted(arches)
RECURSIVE SortedArches(_)
SortedArches(s) ==
    IF s = <<>> THEN <<>> ELSE Insert(s[Len(s)], SortedArches(SubSeq(s, 1, Len(s) - 1)))

\* the dict process_arch returns for an architecture
ArchResult(a) == [arch |-> a, packages |-> <<[name |-> "pkg", arch |-> a]>>]

TaskFailed(i) == task[i] \in {"failed_provision", "failed_resolver"}
TaskFinished(i) == task[i] = "done" \/ TaskFailed(i)

\* the exception stored in the i-th future
TaskError(i) == <<futures[i], task[i]>>

\* the three rpmdb preparers: empty_rpmdb, local_rpmdb, image_rpmdb
Strategies == {"empty", "local", "image"}

\* platform.machine()
Machine == "x86_64"

MainInit ==
    /\ arches \in UNION {[1..n -> ArchNames] : n \in 1..MaxArches}
    /\ strategy \in Strategies
    /\ strategy = "local" => arches = <<Machine>>
    /\ mpc = "submit"
    /\ futures = <<>>
    /\ task = <<>>
    /\ rootDir = <<>>
    /\ completed = <<>>
    /\ atStart = {}
    /\ yielded = {}
    /\ data = <<>>
    /\ outfile = [written |-> FALSE, arches |-> <<>>]
    /\ raised = {}
    /\ exitCode = -1

\* for arch in sorted(arches): futures.append(executor.submit(process_arch, arch, ...))
Submit ==
    /\ mpc = "submit"
    /\ IF Len(futures) < Len(arches)
       THEN /\ futures' = Append(futures, SortedArches(arches)[Len(futures) + 1])
            /\ task' = Append(task, "queued")
            /\ rootDir' = Append(rootDir, "none")
            /\ mpc' = mpc
       ELSE /\ mpc' = "as_completed"
            /\ UNCHANGED <<futures, task, rootDir>>
    /\ UNCHANGED <<strategy, arches, completed, atStart, yielded, data, outfile, raised, exitCode>>
    /\ UNCHANGED nonMainVars

\* reading the package lists of an architecture raises inside the submit loop
SubmitRaises ==
    /\ mpc = "submit"
    /\ Len(futures) < Len(arches)
    /\ raised' = {<<SortedArches(arches)[Len(futures) + 1], "submit">>}
    /\ mpc' = "shutdown_err"
    /\ UNCHANGED <<strategy, rootDir, arches, futures, task, completed, atStart, yielded, data, outfile,
                   exitCode>>
    /\ UNCHANGED nonMainVars

\* a worker thread of the pool takes the task: process_arch(arch, ...) starts
\* and rpmdb(arch) enters tempfile.TemporaryDirectory()
TaskStart(i) ==
    /\ i \in DOMAIN task
    /\ task[i] = "queued"
    /\ task' = [task EXCEPT ![i] = "provision"]
    /\ rootDir' = [rootDir EXCEPT ![i] = "exists"]
    /\ UNCHANGED <<strategy, arches, mpc, futures, completed, atStart, yielded, data, outfile,
                   raised, exitCode>>
    /\ UNCHANGED nonMainVars

\* if func: func(root_dir, arch); yield root_dir. The provisioning function
\* returns or raises; without one (empty rpmdb) nothing can raise. An exception
\* leaves the with block of TemporaryDirectory, which removes root_dir.
Provision(i, ok) ==
    /\ i \in DOMAIN task
    /\ task[i] = "provision"
    /\ strategy = "empty" => ok
    /\ task' = [task EXCEPT ![i] = IF ok THEN "resolver" ELSE "failed_provision"]
    /\ rootDir' = [rootDir EXCEPT ![i] = IF ok THEN @ ELSE "removed"]
    /\ completed' = IF ok THEN completed ELSE Append(completed, i)
    /\ UNCHANGED <<strategy, arches, mpc, futures, atStart, yielded, data, outfile, raised,
                   exitCode>>
    /\ UNCHANGED nonMainVars

\* mutant: root_dir is removed on the normal path only
ResolveLeaksOnError(i, ok) ==
    /\ i \in DOMAIN task
    /\ task[i] = "resolver"
    /\ task' = [task EXCEPT ![i] = IF ok THEN "done" ELSE "failed_resolver"]
    /\ rootDir' = [rootDir EXCEPT ![i] = IF ok THEN "removed" ELSE @]
    /\ completed' = Append(completed, i)
    /\ UNCHANGED <<strategy, arches, mpc, futures, atStart, yielded, data, outfile, raised,
                   exitCode>>
    /\ UNCHANGED nonMainVars

\* resolver(arch, root_dir, ...) returns or raises; the with block of
\* process_arch is left either way, root_dir is removed and process_arch ends
Resolve(i, ok) ==
    /\ i \in DOMAIN task
    /\ task[i] = "resolver"
    /\ task' = [task EXCEPT ![i] = IF ok THEN "done" ELSE "failed_resolver"]
    /\ rootDir' = [rootDir EXCEPT ![i] = "removed"]
    /\ completed' = Append(completed, i)
    /\ UNCHANGED <<strategy, arches, mpc, futures, atStart, yielded, data, outfile, raised,
                   exitCode>>
    /\ UNCHANGED nonMainVars

\* as_completed(futures) is called: the futures finished by now come first
AsCompleted ==
    /\ mpc = "as_completed"
    /\ atStart' = {i \in DOMAIN task : TaskFinished(i)}
    /\ mpc' = "collect"
    /\ UNCHANGED <<strategy, rootDir, arches, futures, task, completed, yielded, data, outfile, raised,
                   exitCode>>
    /\ UNCHANGED nonMainVars

\* the futures as_completed can yield next: any of those finished at the call,
\* then the others in finishing order
Yieldable ==
    LET early == atStart \ yielded
        late == SelectSeq(completed, LAMBDA i : i \notin atStart /\ i \notin yielded)
    IN IF early # {} THEN early
       ELSE IF late # <<>> THEN {Head(late)} ELSE {}

\* mutant: the exception of a failed future is swallowed by the loop
CollectSkipsFailed(i) ==
    /\ mpc = "collect"
    /\ i \in Yieldable
    /\ yielded' = yielded \cup {i}
    /\ data' = IF TaskFailed(i) THEN data ELSE Append(data, ArchResult(futures[i]))
    /\ UNCHANGED <<raised, mpc>>
    /\ UNCHANGED <<strategy, rootDir, arches, futures, task, completed, atStart, outfile, exitCode>>
    /\ UNCHANGED nonMainVars

\* for future in as_completed(futures): data["arches"].append(future.result())
Collect(i) ==
    /\ mpc = "collect"
    /\ i \in Yieldable
    /\ yielded' = yielded \cup {i}
    /\ IF TaskFailed(i)
       THEN /\ raised' = {TaskError(i)}
            /\ mpc' = "shutdown_err"
            /\ data' = data
       ELSE /\ data' = Append(data, ArchResult(futures[i]))
            /\ UNCHANGED <<raised, mpc>>
    /\ UNCHANGED <<strategy, rootDir, arches, futures, task, completed, atStart, outfile, exitCode>>
    /\ UNCHANGED nonMainVars

\* as_completed is exhausted: the loop ends
CollectEnd ==
    /\ mpc = "collect"
    /\ yielded = DOMAIN task
    /\ mpc' = "shutdown"
    /\ UNCHANGED <<strategy, rootDir, arches, futures, task, completed, atStart, yielded, data, outfile,
                   raised, exitCode>>
    /\ UNCHANGED nonMainVars

\* mutant: the pool is shut down without waiting for the running tasks
ExecutorExitNoWait ==
    /\ mpc \in {"shutdown", "shutdown_err"}
    /\ IF mpc = "shutdown"
       THEN /\ mpc' = "write"
            /\ exitCode' = exitCode
       ELSE /\ mpc' = "exit"
            /\ exitCode' = 1
    /\ UNCHANGED <<strategy, rootDir, arches, futures, task, completed, atStart, yielded, data, outfile,
                   raised>>
    /\ UNCHANGED nonMainVars

\* the with block is left: executor.shutdown(wait=True) joins the workers, then
\* a pending exception leaves main() and the process exits with status 1
ExecutorExit ==
    /\ mpc \in {"shutdown", "shutdown_err"}
    /\ \A i \in DOMAIN task : TaskFinished(i)
    /\ IF mpc = "shutdown"
       THEN /\ mpc' = "write"
            /\ exitCode' = exitCode
       ELSE /\ mpc' = "exit"
            /\ exitCode' = 1
    /\ UNCHANGED <<strategy, rootDir, arches, futures, task, completed, atStart, yielded, data, outfile,
                   raised>>
    /\ UNCHANGED nonMainVars

\* with open(args.outfile, "w") as f: yaml.dump(data, f, ...)
WriteLockfile ==
    /\ mpc = "write"
    /\ outfile' = [written |-> TRUE, arches |-> data]
    /\ mpc' = "exit"
    /\ exitCode' = 0
    /\ UNCHANGED <<strategy, rootDir, arches, futures, task, completed, atStart, yielded, data, raised>>
    /\ UNCHANGED nonMainVars

NextMain ==
    \/ Submit
    \/ SubmitRaises
    \/ \E i \in 1..MaxArches : TaskStart(i)
    \/ \E i \in 1..MaxArches, ok \in BOOLEAN : Provision(i, ok)
    \/ \E i \in 1..MaxArches, ok \in BOOLEAN : Resolve(i, ok)
    \/ AsCompleted
    \/ \E i \in 1..MaxArches : Collect(i)
    \/ CollectEnd
    \/ ExecutorExit
    \/ WriteLockfile

\* main() runs; no setup_rpmdb caller is modelled beside it
InitMain ==
    /\ CacheInit /\ pid = [c \in Callers |-> 1]
    /\ MainInit /\ ResolveParked /\ ExtractParked /\ UtilsParked

SpecMain == InitMain /\ [][NextMain]_vars

(***************************************************************************)
(* Image references (rpm_lockfile/utils.py), strings as character sequences *)
(***************************************************************************)
None == <<>>

Digits == {"0", "1", "2", "3", "4", "5", "6", "7", "8", "9"}

HexChars == Digits \cup {"a", "b", "c", "d", "e", "f"}

\* number of characters of s from position i on up to the first one in stop:
\* the text a greedy [^...]+ takes
RECURSIVE RunLength(_, _, _)
RunLength(s, i, stop) ==
    IF i > Len(s) \/ s[i] \in stop THEN 0 ELSE 1 + RunLength(s, i + 1, stop)

AllIn(s, chars) == \A i \in DOMAIN s : s[i] \in chars

\* d matches sha\d+:[a-f0-9]+ from its first to its last character
DigestMatches(d) ==
    /\ Len(d) >= 6
    /\ SubSeq(d, 1, 3) = <<"s", "h", "a">>
    /\ \E k \in 4..(Len(d) - 2) :
        /\ AllIn(SubSeq(d, 4, k), Digits)
        /\ d[k + 1] = ":"
        /\ AllIn(SubSeq(d, k + 2, Len(d)), HexChars)

\* re.match(r'([^:@]+)(:[^@]+)?(@sha\d+:[a-f0-9]+)?$', image_spec): group 1 is
\* the text before the first ':' or '@', group 2 runs from that ':' to the
\* next '@' or the end, group 3 is the rest. The tag keeps its leading ':',
\* the digest loses its '@'.
SplitImage(s) ==
    LET n == RunLength(s, 1, {":", "@"})
        hasTag == n < Len(s) /\ s[n + 1] = ":"
        t == IF hasTag THEN RunLength(s, n + 2, {"@"}) ELSE 0
        e == IF hasTag THEN n + 1 + t ELSE n
        d == SubSeq(s, e + 2, Len(s))
        ok == /\ n >= 1
              /\ hasTag => t >= 1
              /\ e = Len(s) \/ DigestMatches(d)
    IN IF ok
       THEN [ok |-> TRUE,
             repo |-> SubSeq(s, 1, n),
             tag |-> IF hasTag THEN SubSeq(s, n + 1, e) ELSE None,
             digest |-> IF e = Len(s) THEN None ELSE d]
       ELSE [ok |-> FALSE, repo |-> None, tag |-> None, digest |-> None]

\* make_image_spec(repo, tag, digest)
MakeImageSpec(repo, tag, dgst) ==
    repo \o (IF tag # None THEN <<":">> \o tag ELSE <<>>)
         \o (IF dgst # None THEN <<"@">> \o dgst ELSE <<>>)

(***************************************************************************)
(* Head of setup_rpmdb: from baseimage to the cache key and the pull        *)
(* reference                                                               *)
(***************************************************************************)
\* repositories a caller may name: plain, with a path, with a registry port
GivenRepos == {<<"r">>, <<"r", "/", "r">>, <<"h", ":", "5", "/", "r">>}

GivenTags == {None, <<"t">>}

GivenDigests == {None, <<"s", "h", "a", "1", ":", "a">>,
                 <<"s", "h", "a", "2", ":", "b", "0">>}

\* digests the registry may answer an inspect with
RegistryDigests == {<<"s", "h", "a", "1", ":", "a">>, <<"s", "h", "a", "1", ":", "c">>}

\* the reference repo[:tag][@digest] the caller writes for the given parts
Reference(g) ==
    g.repo \o (IF g.tag # None THEN <<":">> \o g.tag ELSE <<>>)
           \o (IF g.digest # None THEN <<"@">> \o g.digest ELSE <<>>)

\* architectures a caller may ask for
RequestedArches == {"x86_64", "aarch64", "amd64", "s390x"}

\* utils.translate_arch(arch)
TranslateArch(a) ==
    CASE a = "aarch64" -> "arm64"
      [] a = "x86_64" -> "amd64"
      [] OTHER -> a

\* the cache entry named after the architecture as translated for skopeo
CacheEntryMapped(a, d) == <<"rpmdbs", TranslateArch(a), d>>

\* utils.CACHE_PATH / "rpmdbs" / arch / digest
CacheEntry(a, d) == <<"rpmdbs", a, d>>

ResolveInit ==
    /\ given \in [repo : GivenRepos, tag : GivenTags, digest : GivenDigests]
    /\ arch \in RequestedArches
    /\ cachePath = None
    /\ copyArch = ""
    /\ baseimage = Reference(given)
    /\ rpc = "split"
    /\ image = None
    /\ digest = None
    /\ inspected = 0
    /\ cacheKey = None
    /\ onlineRef = None

\* image, _, digest = utils.split_image(baseimage)
SplitStep ==
    /\ rpc = "split"
    /\ LET m == SplitImage(baseimage) IN
       IF m.ok
       THEN /\ image' = m.repo
            /\ digest' = m.digest
            /\ rpc' = IF m.digest = None THEN "inspect" ELSE "make"
       ELSE /\ rpc' = "failed"
            /\ UNCHANGED <<image, digest>>
    /\ UNCHANGED <<given, baseimage, inspected, cacheKey, onlineRef>>
    /\ UNCHANGED <<arch, cachePath, copyArch>>
    /\ UNCHANGED nonResolveVars

\* digest = utils.inspect_image(baseimage, arch)["Digest"]
Inspect ==
    /\ rpc = "inspect"
    /\ \E d \in RegistryDigests : digest' = d
    /\ inspected' = inspected + 1
    /\ rpc' = "make"
    /\ UNCHANGED <<given, baseimage, image, cacheKey, onlineRef>>
    /\ UNCHANGED <<arch, cachePath, copyArch>>
    /\ UNCHANGED nonResolveVars

\* skopeo inspect exits non-zero: CalledProcessError leaves setup_rpmdb
InspectFails ==
    /\ rpc = "inspect"
    /\ inspected' = inspected + 1
    /\ rpc' = "failed"
    /\ UNCHANGED <<given, baseimage, image, digest, cacheKey, onlineRef>>
    /\ UNCHANGED <<arch, cachePath, copyArch>>
    /\ UNCHANGED nonResolveVars

\* image = utils.make_image_spec(image, None, digest); cache = ... / arch / digest
MakeSpec ==
    /\ rpc = "make"
    /\ image' = MakeImageSpec(image, None, digest)
    /\ cacheKey' = digest
    /\ cachePath' = CacheEntry(arch, digest)
    /\ rpc' = "exists"
    /\ UNCHANGED <<given, baseimage, digest, inspected, onlineRef, arch, copyArch>>
    /\ UNCHANGED nonResolveVars

\* if not cache.exists(): _online_setup_rpmdb(tmp_cache, image, arch), which
\* translates arch (line 88) before it calls _copy_image(baseimage, arch, tmpdir)
LookupCache ==
    /\ rpc = "exists"
    /\ \E found \in BOOLEAN :
        IF found
        THEN rpc' = "copytree" /\ onlineRef' = onlineRef /\ copyArch' = copyArch
        ELSE rpc' = "online" /\ onlineRef' = image /\ copyArch' = TranslateArch(arch)
    /\ UNCHANGED <<given, baseimage, image, digest, inspected, cacheKey, arch, cachePath>>
    /\ UNCHANGED nonResolveVars

NextResolve ==
    \/ SplitStep
    \/ Inspect
    \/ InspectFails
    \/ MakeSpec
    \/ LookupCache

InitResolve ==
    /\ CacheInit /\ pid = [c \in Callers |-> 1]
    /\ MainParked /\ ResolveInit /\ ExtractParked /\ UtilsParked

SpecResolve == InitResolve /\ [][NextResolve]_vars

(***************************************************************************)
(* extract_image (rpm_lockfile/utils.py): one line of the file per step     *)
(*                                                                         *)
(* A text is a sequence of pieces: <<"lit", t>> is the literal text t,      *)
(* <<"brace", N>> is ${N} and <<"plain", N>> is $N.                         *)
(***************************************************************************)
MaxLines == 4

ArgNames == {"A", "B"}

Lit(t) == <<<<"lit", t>>>>

\* ARG NAME (no default) and ARG NAME=VALUE, as arg_declaration_re reads them
ArgLine(n, hasValue, v) ==
    [op |-> "ARG", name |-> n, hasValue |-> hasValue, value |-> v,
     img |-> <<>>, alias |-> ""]

\* FROM <img> [AS <name>], as from_line_re reads it; alias "" is a missing AS
FromLine(img, alias) ==
    [op |-> "FROM", name |-> "", hasValue |-> FALSE, value |-> <<>>,
     img |-> img, alias |-> alias]

\* the lines a file is made of
FileLines ==
    { ArgLine("A", TRUE, Lit("ext1")),               \* ARG A=ext1
      ArgLine("A", FALSE, <<>>),                     \* ARG A
      ArgLine("A", TRUE, <<>>),                      \* ARG A=""
      ArgLine("A", TRUE, <<<<"plain", "B">>>>),      \* ARG A=$B
      ArgLine("B", TRUE, Lit("ext1")),               \* ARG B=ext1
      FromLine(Lit("ext1"), "b"),                    \* FROM ext1 AS b
      FromLine(Lit("B"), "c"),                       \* FROM B AS c
      FromLine(Lit("c"), ""),                        \* FROM c
      FromLine(<<<<"brace", "A">>>>, ""),            \* FROM ${A}
      FromLine(<<<<"plain", "B">>, <<"lit", "/">>, <<"brace", "A">>>>, "") }
                                                     \* FROM $B/${A}

Containerfiles == UNION {[1..n -> FileLines] : n \in 0..MaxLines}

\* values of the filter arguments: not passed (None), or a value of the schema
StageNums == {[given |-> FALSE, v |-> 0], [given |-> TRUE, v |-> 0],
              [given |-> TRUE, v |-> 2]}

StageNames == {[given |-> FALSE, v |-> ""], [given |-> TRUE, v |-> ""],
               [given |-> TRUE, v |-> "c"]}

ImagePatterns == {[given |-> FALSE, v |-> <<>>], [given |-> TRUE, v |-> <<>>],
                  [given |-> TRUE, v |-> Lit("ext1")]}

\* str.lower()
Lower(t) == CASE t = "B" -> "b" [] t = "C" -> "c" [] OTHER -> t

LowerText(text) == [i \in DOMAIN text |->
                       IF text[i][1] = "lit" THEN <<"lit", Lower(text[i][2])>> ELSE text[i]]

\* an entry of global_args / stage_args: key missing, or key with its value
Undeclared == [declared |-> FALSE, hasValue |-> FALSE, value |-> <<>>]

Declared(hasValue, v) == [declared |-> TRUE, hasValue |-> hasValue, value |-> v]

NoArgs == [n \in ArgNames |-> Undeclared]

\* mutant: a global declaration wins over the one of the stage
AllArgsGlobalFirst(g, st) == [n \in ArgNames |-> IF g[n].declared THEN g[n] ELSE st[n]]

\* all_args = {**global_args, **stage_args}
AllArgs(g, st) == [n \in ArgNames |-> IF st[n].declared THEN st[n] ELSE g[n]]

\* value = args.get(var_name); if value is None: raise
IsNone(args, n) == n \notin DOMAIN args \/ ~args[n].hasValue

\* one re.sub of expand_vars: the references of the given kind are replaced
\* from left to right, the first one without a value raises; the text put in
\* for a reference is not looked at by the same re.sub
RECURSIVE SubRefs(_, _, _)
SubRefs(text, kind, args) ==
    IF text = <<>>
    THEN [ok |-> TRUE, text |-> <<>>, name |-> ""]
    ELSE LET h == Head(text) IN
         IF h[1] = kind /\ IsNone(args, h[2])
         THEN [ok |-> FALSE, text |-> <<>>, name |-> h[2]]
         ELSE LET r == SubRefs(Tail(text), kind, args) IN
              IF ~r.ok THEN r
              ELSE [ok |-> TRUE,
                    text |-> (IF h[1] = kind THEN args[h[2]].value ELSE <<h>>) \o r.text,
                    name |-> ""]

\* expand_vars(text, args): first every ${VAR}, then every $VAR of the result
ExpandVars(text, args) ==
    LET first == SubRefs(text, "brace", args) IN
    IF ~first.ok THEN first ELSE SubRefs(first.text, "plain", args)

NoBases == [a \in {"b", "c"} |-> [has |-> FALSE, image |-> <<>>]]

\* expanded_img.lower() in stage_bases
IsStageAlias(expanded, bases) ==
    /\ Len(expanded) = 1
    /\ expanded[1][1] = "lit"
    /\ Lower(expanded[1][2]) \in DOMAIN bases
    /\ bases[Lower(expanded[1][2])].has

\* mutant: the alias of an earlier stage is looked up as it is written
ResolveStageCaseSensitive(expanded, bases) ==
    IF Len(expanded) = 1 /\ expanded[1][1] = "lit" /\ expanded[1][2] \in DOMAIN bases
       /\ bases[expanded[1][2]].has
    THEN bases[expanded[1][2]].image
    ELSE expanded

\* baseimg = stage_bases[expanded_img.lower()] if it names a stage, else expanded_img
ResolveStage(expanded, bases) ==
    IF IsStageAlias(expanded, bases)
    THEN bases[Lower(expanded[1][2])].image
    ELSE expanded

\* if stage_name_value: stage_bases[stage_name_value.lower()] = baseimg
RecordStage(bases, alias, img) ==
    IF alias # ""
    THEN [bases EXCEPT ![Lower(alias)] = [has |-> TRUE, image |-> img]]
    ELSE bases

\* re.search(image_pattern, baseimg) for a pattern without special characters
Search(pattern, text) ==
    \E i \in 0..(Len(text) - Len(pattern)) : SubSeq(text, i + 1, i + Len(pattern)) = pattern

\* truth value of the filter arguments, as in
\* `if stage_num or stage_name or image_pattern`
NumTruthy(f) == f.given /\ f.v # 0

NameTruthy(f) == f.given /\ f.v # ""

PatternTruthy(f) == f.given /\ f.v # <<>>

ExtractInit ==
    /\ containerfile \in Containerfiles
    /\ stage_num \in StageNums
    /\ stage_name \in StageNames
    /\ image_pattern \in ImagePatterns
    /\ lineNo = 1
    /\ baseimg = <<>>
    /\ stages = 0
    /\ global_args = NoArgs
    /\ stage_args = NoArgs
    /\ in_stage = FALSE
    /\ stage_bases = NoBases
    /\ outcome = [kind |-> "running", image |-> <<>>, name |-> ""]
    /\ fromLog = <<>>

Reading(op) ==
    /\ outcome.kind = "running"
    /\ lineNo <= Len(containerfile)
    /\ containerfile[lineNo].op = op

Return(img) == outcome' = [kind |-> "ok", image |-> img, name |-> ""]

\* the line is an ARG instruction: the declaration goes to global_args before
\* the first FROM and to stage_args after it
ReadArg ==
    /\ Reading("ARG")
    /\ LET line == containerfile[lineNo]
           decl == Declared(line.hasValue, line.value) IN
       IF ~in_stage
       THEN /\ global_args' = [global_args EXCEPT ![line.name] = decl]
            /\ stage_args' = stage_args
       ELSE /\ stage_args' = [stage_args EXCEPT ![line.name] = decl]
            /\ global_args' = global_args
    /\ lineNo' = lineNo + 1
    /\ UNCHANGED <<containerfile, stage_num, stage_name, image_pattern, baseimg, stages,
                   in_stage, stage_bases, outcome, fromLog>>
    /\ UNCHANGED nonExtractVars

\* the line is a FROM instruction whose image does not expand: RuntimeError
ReadFromUndefined ==
    /\ Reading("FROM")
    /\ LET line == containerfile[lineNo]
           all_args == AllArgs(global_args, stage_args)
           e == ExpandVars(line.img, all_args) IN
       /\ ~e.ok
       /\ outcome' = [kind |-> "Undefined", image |-> <<>>, name |-> e.name]
       /\ fromLog' = Append(fromLog, [line |-> lineNo, args |-> all_args, ok |-> FALSE,
                                      expanded |-> <<>>, resolved |-> <<>>])
    /\ in_stage' = TRUE
    /\ UNCHANGED <<containerfile, stage_num, stage_name, image_pattern, lineNo, baseimg,
                   stages, global_args, stage_args, stage_bases>>
    /\ UNCHANGED nonExtractVars

\* the line is a FROM instruction: expand, resolve, record the stage, then
\* test the filters in the order name, number, pattern
ReadFrom ==
    /\ Reading("FROM")
    /\ LET line == containerfile[lineNo]
           all_args == AllArgs(global_args, stage_args)
           e == ExpandVars(line.img, all_args)
           img == ResolveStage(e.text, stage_bases) IN
       /\ e.ok
       /\ baseimg' = img
       /\ stage_bases' = RecordStage(stage_bases, line.alias, img)
       /\ fromLog' = Append(fromLog, [line |-> lineNo, args |-> all_args, ok |-> TRUE,
                                      expanded |-> e.text, resolved |-> img])
       /\ IF NameTruthy(stage_name) /\ stage_name.v = line.alias
          THEN /\ Return(img)
               /\ UNCHANGED <<stages, lineNo>>
          ELSE /\ stages' = stages + 1
               /\ IF stage_num.given /\ stage_num.v = stages + 1
                  THEN Return(img) /\ lineNo' = lineNo
                  ELSE IF PatternTruthy(image_pattern) /\ Search(image_pattern.v, img)
                       THEN Return(img) /\ lineNo' = lineNo
                       ELSE outcome' = outcome /\ lineNo' = lineNo + 1
    /\ in_stage' = TRUE
    /\ stage_args' = NoArgs
    /\ UNCHANGED <<containerfile, stage_num, stage_name, image_pattern, global_args>>
    /\ UNCHANGED nonExtractVars

\* the loop is over: no image, no stage matched, or the last image
EndOfFile ==
    /\ outcome.kind = "running"
    /\ lineNo > Len(containerfile)
    /\ IF baseimg = <<>>
       THEN outcome' = [kind |-> "NoBaseImage", image |-> <<>>, name |-> ""]
       ELSE IF NumTruthy(stage_num) \/ NameTruthy(stage_name) \/ PatternTruthy(image_pattern)
            THEN outcome' = [kind |-> "NoStageMatched", image |-> <<>>, name |-> ""]
            ELSE Return(baseimg)
    /\ UNCHANGED <<containerfile, stage_num, stage_name, image_pattern, lineNo, baseimg,
                   stages, global_args, stage_args, in_stage, stage_bases, fromLog>>
    /\ UNCHANGED nonExtractVars

NextExtract ==
    \/ ReadArg
    \/ ReadFromUndefined
    \/ ReadFrom
    \/ EndOfFile

InitExtract ==
    /\ CacheInit /\ pid = [c \in Callers |-> 1]
    /\ MainParked /\ ResolveParked /\ ExtractInit /\ UtilsParked

SpecExtract == InitExtract /\ [][NextExtract]_vars

(***************************************************************************)
(* subst_vars (rpm_lockfile/utils.py, content_origin/repofiles.py): one     *)
(* str.replace per key of the dict, strings as character sequences          *)
(***************************************************************************)
\* largest number of keys in vars
MaxKeys == 2

SubstKeys == {<<"a">>, <<"b">>}

SubstValues == {<<"X">>, <<>>, <<"{", "a", "}">>, <<"{", "b", "}">>}

SubstTemplates ==
    {<<"x">>,
     <<"{", "a", "}">>,
     <<"x", "{", "b", "}">>,
     <<"{", "c", "}">>,
     <<"{", "a", "}", "{", "b", "}">>,
     <<"{", "b", "}", "{", "a", "}">>,
     <<"{", "a", "}", "}">>,
     <<"{", "{", "a", "}", "}">>}

\* the dicts vars may be: (key, value) pairs in insertion order, keys distinct
SubstDicts ==
    {d \in UNION {[1..n -> SubstKeys \X SubstValues] : n \in 0..MaxKeys} :
        \A i, j \in DOMAIN d : i # j => d[i][1] # d[j][1]}

\* f"{{{key}}}"
Placeholder(k) == <<"{">> \o k \o <<"}">>

\* s[i:].replace(old, new): the occurrences of old, found from left to right
\* and not overlapping, give way to new
RECURSIVE ReplaceFrom(_, _, _, _)
ReplaceFrom(s, i, old, new) ==
    IF i > Len(s)
    THEN <<>>
    ELSE IF i + Len(old) - 1 <= Len(s) /\ SubSeq(s, i, i + Len(old) - 1) = old
         THEN new \o ReplaceFrom(s, i + Len(old), old, new)
         ELSE <<s[i]>> \o ReplaceFrom(s, i + 1, old, new)

\* s.replace(old, new)
Replace(s, old, new) == ReplaceFrom(s, 1, old, new)

\* subst_vars(template, vars), the whole loop
RECURSIVE SubstVars(_, _)
SubstVars(s, d) ==
    IF d = <<>> THEN s
    ELSE SubstVars(Replace(s, Placeholder(Head(d)[1]), Head(d)[2]), Tail(d))

SubstInit ==
    /\ template \in SubstTemplates
    /\ svars \in SubstDicts
    /\ spos = 1
    /\ substituted = template

\* for key, value in vars.items(): template = template.replace(f"{{{key}}}", value)
SubstReplace ==
    /\ spos \in DOMAIN svars
    /\ substituted' = Replace(substituted, Placeholder(svars[spos][1]), svars[spos][2])
    /\ spos' = spos + 1
    /\ UNCHANGED <<template, svars>>
    /\ UNCHANGED nonSubstVars

NextSubst ==
    \/ SubstReplace

InitSubst ==
    /\ CacheInit /\ pid = [c \in Callers |-> 1]
    /\ CoreParked
    /\ SubstInit /\ RefParked /\ OriginParked /\ FilterParked /\ WrapParked /\ LayersParked
    /\ HttpParked /\ ComposeParked

SpecSubst == InitSubst /\ [][NextSubst]_vars

(***************************************************************************)
(* split_image, make_image_spec and strip_tag applied to the references a   *)
(* caller may write                                                        *)
(***************************************************************************)
\* no call made yet
NoSplit == [kind |-> "unset", repo |-> None, tag |-> None, digest |-> None]

NoText == [kind |-> "unset", v |-> None]

\* split_image(s): the triple it returns, or the RuntimeError it raises
SplitResult(s) ==
    LET m == SplitImage(s) IN
    [kind |-> IF m.ok THEN "ok" ELSE "error",
     repo |-> m.repo, tag |-> m.tag, digest |-> m.digest]

\* strip_tag(image_spec)
StripTag(s) ==
    LET m == SplitImage(s) IN
    IF ~m.ok
    THEN [kind |-> "error", v |-> None]
    ELSE IF m.digest # None
         THEN [kind |-> "ok", v |-> m.repo \o <<"@">> \o m.digest]
         ELSE [kind |-> "ok", v |-> s]

RefInit ==
    /\ parts \in [repo : GivenRepos, tag : GivenTags, digest : GivenDigests]
    /\ image_spec = Reference(parts)
    /\ splitOut = NoSplit
    /\ respec = NoText
    /\ madeSpec = NoText
    /\ resplit = NoSplit
    /\ stripped = NoText

\* utils.split_image(image_spec)
SplitGiven ==
    /\ splitOut.kind = "unset"
    /\ splitOut' = SplitResult(image_spec)
    /\ UNCHANGED <<parts, image_spec, respec, madeSpec, resplit, stripped>>
    /\ UNCHANGED nonRefVars

\* utils.make_image_spec(*utils.split_image(image_spec))
FormatSplit ==
    /\ splitOut.kind = "ok"
    /\ respec.kind = "unset"
    /\ respec' = [kind |-> "ok",
                  v |-> MakeImageSpec(splitOut.repo, splitOut.tag, splitOut.digest)]
    /\ UNCHANGED <<parts, image_spec, splitOut, madeSpec, resplit, stripped>>
    /\ UNCHANGED nonRefVars

\* utils.make_image_spec(repo, tag, digest)
FormatParts ==
    /\ madeSpec.kind = "unset"
    /\ madeSpec' = [kind |-> "ok", v |-> MakeImageSpec(parts.repo, parts.tag, parts.digest)]
    /\ UNCHANGED <<parts, image_spec, splitOut, respec, resplit, stripped>>
    /\ UNCHANGED nonRefVars

\* utils.split_image(utils.make_image_spec(repo, tag, digest))
SplitMade ==
    /\ madeSpec.kind = "ok"
    /\ resplit.kind = "unset"
    /\ resplit' = SplitResult(madeSpec.v)
    /\ UNCHANGED <<parts, image_spec, splitOut, respec, madeSpec, stripped>>
    /\ UNCHANGED nonRefVars

\* utils.strip_tag(image_spec)
StripTagStep ==
    /\ stripped.kind = "unset"
    /\ stripped' = StripTag(image_spec)
    /\ UNCHANGED <<parts, image_spec, splitOut, respec, madeSpec, resplit>>
    /\ UNCHANGED nonRefVars

NextRef ==
    \/ SplitGiven
    \/ FormatSplit
    \/ FormatParts
    \/ SplitMade
    \/ StripTagStep

InitRef ==
    /\ CacheInit /\ pid = [c \in Callers |-> 1]
    /\ CoreParked
    /\ SubstParked /\ RefInit /\ OriginParked /\ FilterParked /\ WrapParked /\ LayersParked
    /\ HttpParked /\ ComposeParked

SpecRef == InitRef /\ [][NextRef]_vars

(***************************************************************************)
(* Content origins: Repo.from_dict, the collectors and                      *)
(* collect_content_origins                                                  *)
(*                                                                         *)
(* A dict of options is a record with one field per key; the value of a    *)
(* key is Missing, a string (kind "str", v the one string) or a list of      *)
(* strings (kind "list", v the items).                                      *)
(***************************************************************************)
\* largest number of content origin types in the configuration
MaxOrigins == 2

\* largest number of sections in a .repo file
MaxSections == 2

Missing == [kind |-> "absent", v |-> <<>>]

Str(s) == [kind |-> "str", v |-> <<s>>]

List(l) == [kind |-> "list", v |-> l]

NoRepo == [repoid |-> "", baseurl |-> Missing, metalink |-> Missing, mirrorlist |-> Missing]

\* s[i:].split(): the runs of characters between whitespace
RECURSIVE SplitFrom(_, _)
SplitFrom(s, i) ==
    IF i > Len(s)
    THEN <<>>
    ELSE IF s[i] = " "
         THEN SplitFrom(s, i + 1)
         ELSE LET n == RunLength(s, i, {" "}) IN
              <<SubSeq(s, i, i + n - 1)>> \o SplitFrom(s, i + n)

\* Repo.from_dict(data): the Repo built, or the RuntimeError raised
FromDict(d) ==
    LET b == IF d.baseurl.kind = "str"
             THEN List(SplitFrom(d.baseurl.v[1], 1))
             ELSE d.baseurl IN
    IF b.kind = "absent" /\ d.metalink.kind = "absent" /\ d.mirrorlist.kind = "absent"
    THEN [err |-> "MissingUrl", repo |-> NoRepo]
    ELSE [err |-> "none",
          repo |-> [repoid |-> d.repoid, baseurl |-> b,
                    metalink |-> d.metalink, mirrorlist |-> d.mirrorlist]]

\* the labels an image lookup answers with
ImageLabels == <<<<<<"a">>, <<"X">>>>>>

\* utils.get_labels(obj, config_dir): obj.pop(...) needs obj to be a dict
GetLabels(obj) ==
    IF obj.kind # "dict"
    THEN [err |-> "AttributeError", labels |-> <<>>, lookups |-> 0]
    ELSE LET n == (IF obj.varsFromImage.kind = "str" THEN 1 ELSE 0)
                  + (IF obj.varsFromContainerfile.kind = "str" THEN 1 ELSE 0) IN
         [err |-> "none", labels |-> IF n > 0 THEN ImageLabels ELSE <<>>, lookups |-> n]

\* one iteration of RepoOrigin.collect: get_labels is handed the popped
\* varsFromImage value (None or a string), never the declaration
CollectDeclaration(source) ==
    LET popped == [kind |-> IF source.varsFromImage.kind = "str" THEN "str" ELSE "none"]
        found == GetLabels(popped) IN
    IF found.err # "none"
    THEN [err |-> found.err, repo |-> NoRepo, lookups |-> found.lookups]
    ELSE IF source.baseurl.kind = "absent"
         THEN [err |-> "KeyError", repo |-> NoRepo, lookups |-> found.lookups]
         ELSE LET made == FromDict(
                      [repoid |-> source.repoid,
                       baseurl |-> Str(SubstVars(source.baseurl.v[1], found.labels)),
                       metalink |-> source.metalink,
                       mirrorlist |-> source.mirrorlist]) IN
              [err |-> made.err, repo |-> made.repo, lookups |-> found.lookups]

\* list(collector.collect(sources)) for a function collecting one source:
\* what was yielded before the first exception, and that exception
RECURSIVE CollectEach(_)
CollectEach(outcomes) ==
    IF outcomes = <<>>
    THEN [err |-> "none", repos |-> <<>>, lookups |-> 0]
    ELSE LET first == Head(outcomes) IN
         IF first.err # "none"
         THEN [err |-> first.err, repos |-> <<>>, lookups |-> first.lookups]
         ELSE LET others == CollectEach(Tail(outcomes)) IN
              [err |-> others.err,
               repos |-> first.repos \o others.repos,
               lookups |-> first.lookups + others.lookups]

\* RepoOrigin.collect(sources)
CollectRepoOrigin(sources) ==
    LET One(source) == LET c == CollectDeclaration(source) IN
                       [err |-> c.err, lookups |-> c.lookups,
                        repos |-> IF c.err = "none" THEN <<c.repo>> ELSE <<>>] IN
    CollectEach([i \in 1..Len(sources) |-> One(sources[i])])

\* RepofileOrigin.parse_repofile(contents): Repo.from_dict of every section
ParseRepofile(sections) ==
    LET One(section) == LET made == FromDict(section) IN
                        [err |-> made.err, lookups |-> 0,
                         repos |-> IF made.err = "none" THEN <<made.repo>> ELSE <<>>] IN
    CollectEach([i \in 1..Len(sections) |-> One(sections[i])])

\* RepofileOrigin.collect(sources), every source given as the sections of
\* the file its location holds
CollectRepofileOrigin(sources) ==
    CollectEach([i \in 1..Len(sources) |-> ParseRepofile(sources[i])])

\* content_origin.load(): the names of the entry points
Registry == {"repos", "repofiles", "composes"}

\* the values of the URL options
UrlStrings == {<<"u">>, <<"u", " ", "v">>}

Declarations ==
    [repoid : {"a"},
     baseurl : {Missing} \cup {Str(u) : u \in UrlStrings},
     metalink : {Missing, Str(<<"m">>)},
     mirrorlist : {Missing, Str(<<"l">>)},
     varsFromImage : {Missing, Str(<<"i">>)},
     varsFromContainerfile : {Missing}]

SectionOptions ==
    [baseurl : {Missing} \cup {Str(u) : u \in UrlStrings},
     metalink : {Missing, Str(<<"m">>)},
     mirrorlist : {Missing, Str(<<"l">>)}]

SectionNames == <<"a", "b", "c">>

\* the .repo files: sections of distinct names, each with its options
Repofiles ==
    {[i \in 1..n |-> [repoid |-> SectionNames[i], baseurl |-> o[i].baseurl,
                      metalink |-> o[i].metalink, mirrorlist |-> o[i].mirrorlist]] :
        n \in 0..MaxSections, o \in [1..MaxSections -> SectionOptions]}

\* the data a source type may come with
SourceData(type) ==
    CASE type = "repos" -> {<<>>} \cup {<<d>> : d \in Declarations}
      [] type = "repofiles" -> {<<f>> : f \in Repofiles}
      [] OTHER -> {<<>>}

SourceTypes == Registry \cup {"mirrors"}

\* config["contentOrigin"]: source types, each once, in the order written
OriginConfigs ==
    {o \in UNION {[1..n -> UNION {{<<t, d>> : d \in SourceData(t)} : t \in SourceTypes}] :
                     n \in 1..MaxOrigins} :
        \A i, j \in DOMAIN o : i # j => o[i][1] # o[j][1]}

OriginInit ==
    /\ origins \in OriginConfigs
    /\ opos = 1
    /\ repos = <<>>
    /\ collectLog = <<>>
    /\ oerr = "none"

\* the loop body for a collector that could be constructed:
\* repos.extend(collector.collect(source_data))
Extend(out) ==
    /\ collectLog' = Append(collectLog,
                            [type |-> origins[opos][1], data |-> origins[opos][2],
                             constructed |-> TRUE, err |-> out.err,
                             repos |-> out.repos, lookups |-> out.lookups])
    /\ IF out.err = "none"
       THEN repos' = repos \o out.repos /\ opos' = opos + 1 /\ oerr' = oerr
       ELSE oerr' = out.err /\ UNCHANGED <<repos, opos>>
    /\ UNCHANGED origins
    /\ UNCHANGED nonOriginVars

\* the loop body when the constructor call raised
ConstructionFails(e) ==
    /\ collectLog' = Append(collectLog,
                            [type |-> origins[opos][1], data |-> origins[opos][2],
                             constructed |-> FALSE, err |-> e,
                             repos |-> <<>>, lookups |-> 0])
    /\ oerr' = e
    /\ UNCHANGED <<origins, opos, repos>>
    /\ UNCHANGED nonOriginVars

Collecting == oerr = "none" /\ opos \in DOMAIN origins

\* loaders["repos"](config_dir) is RepoOrigin(config_dir)
CollectRepos ==
    /\ Collecting
    /\ origins[opos][1] = "repos"
    /\ Extend(CollectRepoOrigin(origins[opos][2]))

\* loaders["repofiles"](config_dir) is RepofileOrigin(config_dir)
CollectRepofiles ==
    /\ Collecting
    /\ origins[opos][1] = "repofiles"
    /\ Extend(CollectRepofileOrigin(origins[opos][2]))

\* loaders["composes"](config_dir) is ComposeOrigin(config_dir), and
\* ComposeOrigin.__init__(self) takes no argument: TypeError
CollectComposes ==
    /\ Collecting
    /\ origins[opos][1] = "composes"
    /\ ConstructionFails("TypeError")

\* loaders[source_type] raises KeyError
UnknownOrigin ==
    /\ Collecting
    /\ origins[opos][1] \notin Registry
    /\ ConstructionFails("UnknownContentOrigin")

NextOrigin ==
    \/ CollectRepos
    \/ CollectRepofiles
    \/ CollectComposes
    \/ UnknownOrigin

InitOrigin ==
    /\ CacheInit /\ pid = [c \in Callers |-> 1]
    /\ CoreParked
    /\ SubstParked /\ RefParked /\ OriginInit /\ FilterParked /\ WrapParked /\ LayersParked
    /\ HttpParked /\ ComposeParked

SpecOrigin == InitOrigin /\ [][NextOrigin]_vars

(***************************************************************************)
(* filter_for_arch (rpm_lockfile/__init__.py): one entry of pkgs per step   *)
(***************************************************************************)
\* largest number of package entries
MaxPkgs == 2

FilterArches == {"x86_64", "aarch64", "s390x"}

\* the values of "only" and "not": no key, one string, a list
ArchValues ==
    {Missing, Str("x86_64"), Str("aarch64"),
     List(<<>>), List(<<"x86_64">>), List(<<"x86_64", "aarch64">>)}

PkgNames == <<"p1", "p2", "p3">>

\* a bare string, or a dict with a name and its "arches"
PkgEntries(name) ==
    {[kind |-> "str", name |-> name, arches |-> [only |-> Missing, not |-> Missing]]}
    \cup {[kind |-> "dict", name |-> name, arches |-> [only |-> o, not |-> n]] :
             o \in ArchValues, n \in ArchValues}

PkgLists ==
    UNION {{p \in [1..n -> UNION {PkgEntries(PkgNames[i]) : i \in 1..n}] :
               \A i \in 1..n : p[i].name = PkgNames[i]} : n \in 0..MaxPkgs}

\* spec.get(key, []), a string put into a list of its own
AsList(value) == IF value.kind = "absent" THEN <<>> ELSE value.v

\* _arch_matches(spec, arch)
ArchMatches(spec, a) ==
    LET only == AsList(spec.only)
        not_ == AsList(spec.not) IN
    /\ only = <<>> \/ a \in {only[i] : i \in DOMAIN only}
    /\ not_ = <<>> \/ a \notin {not_[i] : i \in DOMAIN not_}

FilterInit ==
    /\ farch \in FilterArches
    /\ pkgs \in PkgLists
    /\ fpos = 1
    /\ kept = <<>>

\* if isinstance(pkg, str): yield pkg
YieldBare ==
    /\ fpos \in DOMAIN pkgs
    /\ pkgs[fpos].kind = "str"
    /\ kept' = Append(kept, pkgs[fpos].name)
    /\ fpos' = fpos + 1
    /\ UNCHANGED <<farch, pkgs>>
    /\ UNCHANGED nonFilterVars

\* if _arch_matches(pkg.get("arches", {}), arch): yield pkg["name"]
YieldMatching ==
    /\ fpos \in DOMAIN pkgs
    /\ pkgs[fpos].kind = "dict"
    /\ ArchMatches(pkgs[fpos].arches, farch)
    /\ kept' = Append(kept, pkgs[fpos].name)
    /\ fpos' = fpos + 1
    /\ UNCHANGED <<farch, pkgs>>
    /\ UNCHANGED nonFilterVars

\* _arch_matches returned False: nothing is yielded for the entry
SkipEntry ==
    /\ fpos \in DOMAIN pkgs
    /\ pkgs[fpos].kind = "dict"
    /\ ~ArchMatches(pkgs[fpos].arches, farch)
    /\ fpos' = fpos + 1
    /\ UNCHANGED <<farch, pkgs, kept>>
    /\ UNCHANGED nonFilterVars

NextFilter ==
    \/ YieldBare
    \/ YieldMatching
    \/ SkipEntry

InitFilter ==
    /\ CacheInit /\ pid = [c \in Callers |-> 1]
    /\ CoreParked
    /\ SubstParked /\ RefParked /\ OriginParked /\ FilterInit /\ WrapParked /\ LayersParked
    /\ HttpParked /\ ComposeParked

SpecFilter == InitFilter /\ [][NextFilter]_vars

(***************************************************************************)
(* The caching wrapper (rpm_lockfile/caching_wrapper.py): invocations of    *)
(* main() sharing CACHE_PATH / "results", one call per step. Arguments and  *)
(* file contents are sequences of bytes; SHA-256 is taken to be free of     *)
(* collisions, so a digest stands for the bytes that were hashed.           *)
(***************************************************************************)
\* number of wrapper invocations
NumInvocations == 2

Invocations == 1..NumInvocations

\* the byte b"\0"
NUL == "NUL"

\* the extra arguments left over by parse_known_args
RestArgs == {<<>>, <<<<"f">>>>, <<<<"f">>, <<"x">>>>}

\* what the input file may hold
InfileContents == {<<"b">>, <<"c">>, <<"x", NUL, "b">>}

NoFile == [exists |-> FALSE, complete |-> FALSE, rest |-> <<>>, content |-> <<>>]

\* b"\0".join(x.encode("utf-8") for x in rest)
RECURSIVE JoinNul(_)
JoinNul(rest) ==
    IF rest = <<>> THEN <<>>
    ELSE IF Len(rest) = 1 THEN rest[1]
    ELSE rest[1] \o <<NUL>> \o JoinNul(Tail(rest))

\* the bytes fed to input_hash, which input_digest stands for
InputDigest(a) == JoinNul(a.rest) \o <<NUL>> \o a.content

\* the file at path in CACHE_PATH / "results", NoFile when there is none
FileAt(files, path) ==
    IF \E f \in files : f.path = path
    THEN (CHOOSE f \in files : f.path = path).file
    ELSE NoFile

\* open(path, "w") ... close(): the file at path is replaced by file
WriteFile(files, path, file) ==
    {f \in files : f.path # path} \cup {[path |-> path, file |-> file]}

\* the command line [cmd, args.infile, "--outfile", str(cache_file)] + rest
ResolverCommand(i) ==
    <<<<"rpm-lockfile-prototype">>, <<"infile", i>>, <<"--outfile">>, cache_file[i]>>
        \o argv[i].rest

\* the lockfile the resolver writes for the input and arguments it was given
Lockfile(a, whole) ==
    [exists |-> TRUE, complete |-> whole, rest |-> a.rest, content |-> a.content]

WrapInit ==
    /\ argv \in [Invocations -> [rest : RestArgs, content : InfileContents]]
    /\ wpc = [i \in Invocations |-> "hash"]
    /\ cache_file = [i \in Invocations |-> None]
    /\ results = {}
    /\ resolverRuns = [i \in Invocations |-> <<>>]
    /\ sawCache = [i \in Invocations |-> "unknown"]
    /\ outp = [i \in Invocations |-> NoFile]

\* lines 20-32: hash the extra arguments and the input file, name the cache file
HashInput(i) ==
    /\ wpc[i] = "hash"
    /\ cache_file' = [cache_file EXCEPT ![i] = InputDigest(argv[i])]
    /\ wpc' = [wpc EXCEPT ![i] = "exists"]
    /\ UNCHANGED <<argv, results, resolverRuns, sawCache, outp>>
    /\ UNCHANGED nonWrapVars

\* line 36: if not cache_file.exists()
CheckCache(i) ==
    /\ wpc[i] = "exists"
    /\ IF FileAt(results, cache_file[i]).exists
       THEN /\ sawCache' = [sawCache EXCEPT ![i] = "hit"]
            /\ wpc' = [wpc EXCEPT ![i] = "copy"]
       ELSE /\ sawCache' = [sawCache EXCEPT ![i] = "miss"]
            /\ wpc' = [wpc EXCEPT ![i] = "run"]
    /\ UNCHANGED <<argv, cache_file, results, resolverRuns, outp>>
    /\ UNCHANGED nonWrapVars

\* lines 38-41: utils.logged_run starts the resolver
StartResolver(i) ==
    /\ wpc[i] = "run"
    /\ resolverRuns' = [resolverRuns EXCEPT ![i] = Append(@, ResolverCommand(i))]
    /\ wpc' = [wpc EXCEPT ![i] = "resolving"]
    /\ UNCHANGED <<argv, cache_file, results, sawCache, outp>>
    /\ UNCHANGED nonWrapVars

\* the resolver exits non-zero before it opens its outfile: check=True raises
ResolverFails(i) ==
    /\ wpc[i] = "resolving"
    /\ wpc' = [wpc EXCEPT ![i] = "failed"]
    /\ UNCHANGED <<argv, cache_file, results, resolverRuns, sawCache, outp>>
    /\ UNCHANGED nonWrapVars

\* the resolver opens its outfile for writing (rpm_lockfile/__init__.py main)
ResolverOpens(i) ==
    /\ wpc[i] = "resolving"
    /\ results' = WriteFile(results, cache_file[i], Lockfile(argv[i], FALSE))
    /\ wpc' = [wpc EXCEPT ![i] = "writing"]
    /\ UNCHANGED <<argv, cache_file, resolverRuns, sawCache, outp>>
    /\ UNCHANGED nonWrapVars

\* the resolver has written the whole lockfile and exits with 0
ResolverCloses(i) ==
    /\ wpc[i] = "writing"
    /\ results' = WriteFile(results, cache_file[i], Lockfile(argv[i], TRUE))
    /\ wpc' = [wpc EXCEPT ![i] = "copy"]
    /\ UNCHANGED <<argv, cache_file, resolverRuns, sawCache, outp>>
    /\ UNCHANGED nonWrapVars

\* the resolver dies while it writes: check=True raises, the file stays
ResolverKilled(i) ==
    /\ wpc[i] = "writing"
    /\ wpc' = [wpc EXCEPT ![i] = "failed"]
    /\ UNCHANGED <<argv, cache_file, results, resolverRuns, sawCache, outp>>
    /\ UNCHANGED nonWrapVars

\* lines 43-46: shutil.copyfileobj from the cache file to args.outfile
CopyResult(i) ==
    /\ wpc[i] = "copy"
    /\ IF FileAt(results, cache_file[i]).exists
       THEN /\ outp' = [outp EXCEPT ![i] = FileAt(results, cache_file[i])]
            /\ wpc' = [wpc EXCEPT ![i] = "done"]
       ELSE /\ wpc' = [wpc EXCEPT ![i] = "failed"]
            /\ outp' = outp
    /\ UNCHANGED <<argv, cache_file, results, resolverRuns, sawCache>>
    /\ UNCHANGED nonWrapVars

NextWrap ==
    \/ \E i \in Invocations : HashInput(i)
    \/ \E i \in Invocations : CheckCache(i)
    \/ \E i \in Invocations : StartResolver(i)
    \/ \E i \in Invocations : ResolverFails(i)
    \/ \E i \in Invocations : ResolverOpens(i)
    \/ \E i \in Invocations : ResolverCloses(i)
    \/ \E i \in Invocations : ResolverKilled(i)
    \/ \E i \in Invocations : CopyResult(i)

InitWrap ==
    /\ CacheInit /\ pid = [c \in Callers |-> 1]
    /\ CoreParked
    /\ SubstParked /\ RefParked /\ OriginParked /\ FilterParked /\ WrapInit /\ LayersParked
    /\ HttpParked /\ ComposeParked

SpecWrap == InitWrap /\ [][NextWrap]_vars

(***************************************************************************)
(* Layer extraction of _online_setup_rpmdb (rpm_lockfile/containers.py):    *)
(* one layer archive per step. A path is the sequence of its components,    *)
(* the content of a file names the layer it came from.                      *)
(***************************************************************************)
\* largest number of layers in the manifest
MaxLayers == 2

RPMDB_PATHS ==
    {<<"usr", "lib", "sysimage", "rpm">>,
     <<"var", "lib", "rpm">>,
     <<"files", "lib", "sysimage", "rpm">>}

\* the names a member of a layer archive may have
MemberNames ==
    {<<"var", "lib", "rpm", "f">>,
     <<"usr", "lib", "sysimage", "rpm", "f">>,
     <<"etc", "x">>,
     <<"var", "lib", "rpmfoo", "f">>,
     <<"var", "lib", "rpm", "..", "..", "..", "etc", "x">>,
     <<"var", "lib", "rpm", "..", "..", "..", "..", "x">>}

\* Path(name).is_relative_to(root): root's components lead name's, as written
IsRelativeTo(name, root) ==
    Len(root) <= Len(name) /\ SubSeq(name, 1, Len(root)) = root

\* where the operating system puts a file of that name below dest_dir: each
\* ".." leaves the directory reached so far; Outside once it leaves dest_dir
Outside == <<"..">>

RECURSIVE Walk(_, _)
Walk(at, name) ==
    IF name = <<>> THEN at
    ELSE IF Head(name) = ".."
         THEN IF at = <<>> THEN Outside ELSE Walk(SubSeq(at, 1, Len(at) - 1), Tail(name))
         ELSE Walk(Append(at, Head(name)), Tail(name))

Location(name) == Walk(<<>>, name)

\* filter_rpmdb(member, path) hands the member to tarfile.data_filter
Wanted(name) == \E root \in RPMDB_PATHS : IsRelativeTo(name, root)

\* tarfile.data_filter(member, path) raises for a member that would land
\* outside path
Rejected(name) == Location(name) = Outside

\* the tree with the files of names written into it, each with content c
Overlay(tree, names, c) ==
    {f \in tree : \A n \in names : Location(n) # f[1]}
    \cup {<<Location(n), c>> : n \in names}

Manifests == UNION {[1..n -> SUBSET MemberNames] : n \in 1..MaxLayers}

\* tmp_cache and cache of setup_rpmdb, the directories the tree is in before
\* and after tmp_cache.rename(cache)
TmpCache == <<"rpmdbs", "x86_64", "digest.1">>

FinalCache == <<"rpmdbs", "x86_64", "digest">>

\* os.path.dirname(path)
Dirname(path) == SubSeq(path, 1, Len(path) - 1)

\* the number of leading components two paths share
RECURSIVE CommonLen(_, _)
CommonLen(a, b) ==
    IF a = <<>> \/ b = <<>> \/ Head(a) # Head(b) THEN 0
    ELSE 1 + CommonLen(Tail(a), Tail(b))

\* os.path.relpath(path, start): up from start to the directory both are
\* in, then down to path
RelPath(path, start) ==
    LET shared == CommonLen(path, start) IN
    [i \in 1..(Len(start) - shared) |-> ".."] \o SubSeq(path, shared + 1, Len(path))

\* the path the operating system reaches through a symlink at path `at`
ResolveLink(at, target) ==
    IF target # <<>> /\ Head(target) = "/" THEN Tail(target)
    ELSE Walk(Dirname(at), target)

\* something is at `path` below dest_dir
Present(path) ==
    \/ \E f \in destTree : IsRelativeTo(f[1], path)
    \/ \E l \in links : l[1] = path

\* the files at and below `from` of the tree, seen at `to`
Moved(tree, from, to) ==
    {<<to \o SubSeq(f[1], Len(from) + 1, Len(f[1])), f[2]>> :
        f \in {g \in tree : IsRelativeTo(g[1], from)}}

\* the links of the tree that lead nowhere inside the directory it is in
Dangling ==
    {l \in links : ~IsRelativeTo(ResolveLink(treeRoot \o l[1], l[2]), treeRoot)}

LayersInit ==
    /\ manifest \in Manifests
    /\ layerNo = 1
    /\ destTree = {}
    /\ dbpaths = {}
    /\ layerErr = FALSE
    /\ rpmdbPath \in RPMDB_PATHS
    /\ links = {}
    /\ treeRoot = TmpCache
    /\ copied = {}
    /\ layerPc = "extract"

\* archive.extractall(path=dest_dir, filter=filter_rpmdb) for the next layer
ExtractLayer ==
    /\ ~layerErr
    /\ layerNo \in DOMAIN manifest
    /\ LET wanted == {n \in manifest[layerNo] : Wanted(n)} IN
        /\ \A n \in wanted : ~Rejected(n)
        /\ destTree' = Overlay(destTree, wanted, layerNo)
        /\ dbpaths' = dbpaths \cup
               {root \in RPMDB_PATHS : \E n \in wanted : IsRelativeTo(n, root)}
    /\ layerNo' = layerNo + 1
    /\ UNCHANGED <<manifest, layerErr, rpmdbPath, links, treeRoot, copied, layerPc>>
    /\ UNCHANGED nonLayerVars

\* data_filter raises FilterError for a member: extractall ends there, with
\* the members that came before it in the archive extracted
ExtractLayerFails ==
    /\ ~layerErr
    /\ layerNo \in DOMAIN manifest
    /\ LET wanted == {n \in manifest[layerNo] : Wanted(n)} IN
        /\ \E n \in wanted : Rejected(n)
        /\ \E before \in SUBSET {n \in wanted : ~Rejected(n)} :
            /\ destTree' = Overlay(destTree, before, layerNo)
            /\ dbpaths' = dbpaths \cup
                   {root \in RPMDB_PATHS :
                       \E n \in before \cup {m \in wanted : Rejected(m)} :
                           IsRelativeTo(n, root)}
    /\ layerErr' = TRUE
    /\ UNCHANGED <<manifest, layerNo, rpmdbPath, links, treeRoot, copied, layerPc>>
    /\ UNCHANGED nonLayerVars

\* lines 123-146: the symlink at utils.RPMDB_PATH when the image populated
\* other candidate paths only; os.symlink raises FileExistsError when
\* something is there already
LinkCompat ==
    /\ layerPc = "extract"
    /\ ~layerErr
    /\ layerNo = Len(manifest) + 1
    /\ IF dbpaths # {} /\ rpmdbPath \notin dbpaths
       THEN \E dbpath \in dbpaths :
                LET actual_dbpath == treeRoot \o dbpath
                    compat_dbpath == treeRoot \o rpmdbPath IN
                IF Present(rpmdbPath)
                THEN /\ layerPc' = "failed"
                     /\ links' = links
                ELSE /\ layerPc' = "linked"
                     /\ links' = links \cup
                            {<<rpmdbPath, RelPath(actual_dbpath, Dirname(compat_dbpath))>>}
       ELSE /\ layerPc' = "linked"
            /\ links' = links
    /\ UNCHANGED <<manifest, layerNo, destTree, dbpaths, layerErr, rpmdbPath, treeRoot, copied>>
    /\ UNCHANGED nonLayerVars

\* setup_rpmdb line 72: tmp_cache.rename(cache)
RenameToCache ==
    /\ layerPc = "linked"
    /\ treeRoot' = FinalCache
    /\ layerPc' = "renamed"
    /\ UNCHANGED <<manifest, layerNo, destTree, dbpaths, layerErr, rpmdbPath, links, copied>>
    /\ UNCHANGED nonLayerVars

\* setup_rpmdb line 82: shutil.copytree(cache, dest_dir, dirs_exist_ok=True)
\* copies what a symlink leads to in place of the symlink, and raises
\* shutil.Error at its end for a symlink that leads nowhere
CopyToDest ==
    /\ layerPc = "renamed"
    /\ copied' = destTree \cup UNION
           {Moved(destTree,
                  SubSeq(ResolveLink(treeRoot \o l[1], l[2]),
                         Len(treeRoot) + 1,
                         Len(ResolveLink(treeRoot \o l[1], l[2]))),
                  l[1]) : l \in links \ Dangling}
    /\ layerPc' = IF Dangling = {} THEN "copied" ELSE "failed"
    /\ UNCHANGED <<manifest, layerNo, destTree, dbpaths, layerErr, rpmdbPath, links, treeRoot>>
    /\ UNCHANGED nonLayerVars

NextLayers ==
    \/ ExtractLayer
    \/ ExtractLayerFails
    \/ LinkCompat
    \/ RenameToCache
    \/ CopyToDest

InitLayers ==
    /\ CacheInit /\ pid = [c \in Callers |-> 1]
    /\ CoreParked
    /\ SubstParked /\ RefParked /\ OriginParked /\ FilterParked /\ WrapParked /\ LayersInit
    /\ HttpParked /\ ComposeParked

SpecLayers == InitLayers /\ [][NextLayers]_vars

(***************************************************************************)
(* HTTP requests of the content origins: RepofileOrigin.collect_http,      *)
(* ComposeOrigin.collect_by_id and ComposeOrigin.collect_by_latest         *)
(***************************************************************************)
MaxSources == 2

\* timeout=(2, 5) of repofiles.py line 99: seconds to connect, seconds to read
ConnectTimeout == 2

ReadTimeout == 5

\* session.get called without timeout: requests waits without limit
NoTimeout == <<>>

NoRequest == [to |-> "none", timeout |-> NoTimeout]

\* collect_http, collect_by_id, collect_by_latest
HttpKinds == {"repofile", "id", "latest"}

\* what the server does with a request: answer it, answer with an error
\* status, accept the connection and send nothing, not accept the connection
Servers == {"answers", "refuses", "accepts", "silent"}

HttpSources == [kind : HttpKinds, server : Servers]

HttpInit ==
    /\ hsources \in UNION {[1..n -> HttpSources] : n \in 1..MaxSources}
    /\ hpos = 1
    /\ hreq = NoRequest
    /\ elapsed = 0
    /\ hpc = "collect"
    /\ issued = <<>>

\* self.session.get(url, timeout=timeout) for the next source, of that kind
Get(kind, timeout) ==
    /\ hpc = "collect"
    /\ hsources[hpos].kind = kind
    /\ hreq' = [to |-> kind, timeout |-> timeout]
    /\ issued' = Append(issued, [to |-> kind, timeout |-> timeout])
    /\ elapsed' = 0
    /\ hpc' = "connecting"
    /\ UNCHANGED <<hsources, hpos>>
    /\ UNCHANGED nonHttpVars

\* repofiles.py line 99
CollectHttp == Get("repofile", <<ConnectTimeout, ReadTimeout>>)

\* composes.py line 74
CollectById == Get("id", NoTimeout)

\* composes.py line 80
CollectByLatest == Get("latest", NoTimeout)

\* the server keeps the request in its current phase
Blocked ==
    \/ hpc = "connecting" /\ hsources[hpos].server = "silent"
    \/ hpc = "reading" /\ hsources[hpos].server = "accepts"

\* the seconds requests waits in the current phase of a request with a timeout
Limit == IF hpc = "connecting" THEN hreq.timeout[1] ELSE hreq.timeout[2]

\* the connection is made
Connected ==
    /\ hpc = "connecting"
    /\ ~Blocked
    /\ hpc' = "reading"
    /\ elapsed' = 0
    /\ UNCHANGED <<hsources, hpos, hreq, issued>>
    /\ UNCHANGED nonHttpVars

\* a second passes with the request blocked
Wait ==
    /\ Blocked
    /\ hreq.timeout # NoTimeout
    /\ elapsed < Limit
    /\ elapsed' = elapsed + 1
    /\ UNCHANGED <<hsources, hpos, hreq, hpc, issued>>
    /\ UNCHANGED nonHttpVars

\* requests raises ConnectTimeout or ReadTimeout
TimedOut ==
    /\ Blocked
    /\ hreq.timeout # NoTimeout
    /\ elapsed = Limit
    /\ hpc' = "raised"
    /\ UNCHANGED <<hsources, hpos, hreq, elapsed, issued>>
    /\ UNCHANGED nonHttpVars

\* the response arrives and resp.raise_for_status() passes: the collector
\* yields and goes on to the next source
Answered ==
    /\ hpc = "reading"
    /\ hsources[hpos].server = "answers"
    /\ hreq' = NoRequest
    /\ elapsed' = 0
    /\ hpos' = hpos + 1
    /\ hpc' = IF hpos = Len(hsources) THEN "finished" ELSE "collect"
    /\ UNCHANGED <<hsources, issued>>
    /\ UNCHANGED nonHttpVars

\* the response arrives and resp.raise_for_status() raises HTTPError
StatusError ==
    /\ hpc = "reading"
    /\ hsources[hpos].server = "refuses"
    /\ hpc' = "raised"
    /\ UNCHANGED <<hsources, hpos, hreq, elapsed, issued>>
    /\ UNCHANGED nonHttpVars

NextHttp ==
    \/ CollectHttp
    \/ CollectById
    \/ CollectByLatest
    \/ Connected
    \/ Wait
    \/ TimedOut
    \/ Answered
    \/ StatusError

InitHttp ==
    /\ CacheInit /\ pid = [c \in Callers |-> 1]
    /\ CoreParked
    /\ SubstParked /\ RefParked /\ OriginParked /\ FilterParked /\ WrapParked /\ LayersParked
    /\ HttpInit /\ ComposeParked

SpecHttp == InitHttp /\ [][NextHttp]_vars

(***************************************************************************)
(* ComposeOrigin.collect_from_url                                          *)
(***************************************************************************)
MaxVariants == 2

\* architecture names, one a prefix of the other (as ppc64 and ppc64le)
ComposeArches == {<<"x">>, <<"x", "y">>}

\* repository paths of a variant
RepositoryPaths ==
    {<<"R", "/", "x">>, <<"R", "/", "x", "y">>, <<"S", "/", "x">>, <<"x", "/", "x">>}

\* variant.paths.repository: a path for some of the architectures
Repositories ==
    UNION {[known -> RepositoryPaths] : known \in SUBSET ComposeArches}

VariantUids == {<<"A">>, <<"B">>}

ComposeVariants == [uid : VariantUids, repository : Repositories]

\* compose.info.variants.variants: a dict, so no two variants share a uid
VariantLists ==
    {vs \in UNION {[1..n -> ComposeVariants] : n \in 0..MaxVariants} :
        \A i, j \in DOMAIN vs : i # j => vs[i].uid # vs[j].uid}

Composes ==
    [id : {<<"C">>}, compose_path : {<<"u">>}, variants : VariantLists]

BASEARCH == <<"$basearch">>

\* lines 63-65: the paths of a variant with the architecture replaced
VariantPathsAsWritten(variant) ==
    {variant.repository[ar] : ar \in DOMAIN variant.repository}

VariantPaths(variant) ==
    {Replace(variant.repository[ar], ar, BASEARCH) :
        ar \in DOMAIN variant.repository}

\* lines 68-71: the Repo of a variant with that path
ComposeRepo(c, variant, path) ==
    [repoid |-> c.id \o <<"-">> \o variant.uid \o <<"-", "r", "p", "m", "s">>,
     baseurl |-> <<c.compose_path \o <<"/">> \o path>>]

ComposeInit ==
    /\ compose \in Composes
    /\ vpos = 1
    /\ crepos = <<>>
    /\ cerr = "none"

\* one round of the loop over the variants that ends in its yield
YieldVariant ==
    /\ cerr = "none"
    /\ vpos \in DOMAIN compose.variants
    /\ LET paths == VariantPaths(compose.variants[vpos]) IN
        /\ Cardinality(paths) = 1
        /\ crepos' = Append(crepos,
               ComposeRepo(compose, compose.variants[vpos], CHOOSE p \in paths : TRUE))
    /\ vpos' = vpos + 1
    /\ UNCHANGED <<compose, cerr>>
    /\ UNCHANGED nonComposeVars

\* one round of the loop that ends in RuntimeError("Unexpected compose metadata")
RaiseUnexpected ==
    /\ cerr = "none"
    /\ vpos \in DOMAIN compose.variants
    /\ Cardinality(VariantPaths(compose.variants[vpos])) # 1
    /\ cerr' = "RuntimeError"
    /\ UNCHANGED <<compose, vpos, crepos>>
    /\ UNCHANGED nonComposeVars

NextCompose ==
    \/ YieldVariant
    \/ RaiseUnexpected

InitCompose ==
    /\ CacheInit /\ pid = [c \in Callers |-> 1]
    /\ CoreParked
    /\ SubstParked /\ RefParked /\ OriginParked /\ FilterParked /\ WrapParked /\ LayersParked
    /\ HttpParked /\ ComposeInit

SpecCompose == InitCompose /\ [][NextCompose]_vars

(***************************************************************************)
(* Claims about the rpmdb cache                                            *)
(***************************************************************************)
Complete(r) == Content(r[2])

Evicting(c) == pc[c] \in {"rmtree", "rm_scan", "rm_unlink", "rm_rmdir"}

\* the call of c is past the cache.exists() test and still running
Active(c) == ~Finished(c) /\ pc[c] # "exists"

MissPath == {"mkdir", "copy_image", "extract", "rename"}

\* every caller made exactly one call, all for r, and all calls are over; the
\* image service answered every call and no call measured usage >= threshold
C1_RaceIsOver(r) ==
    /\ \A c \in Callers : calls[c] = 1 /\ req[c] = r /\ pc[c] \in {"returned", "failed"}
    /\ \A c \in Callers : err[c] \notin {"CalledProcessError", "TarError"}
    /\ \A c \in Callers : usage[c] < USAGE_THRESHOLD

\* C1: after N >= 2 concurrent setup_rpmdb calls for the same (arch, digest) that
\* started with no cached entry, the final cache directory exists and is
\* complete, and every caller returned with the complete rpmdb in its dest_dir.
C1_RaceProperty ==
    \A r \in Requests :
        C1_RaceIsOver(r) =>
            /\ fs[CachePath(r)] = Dir(Complete(r))
            /\ \A c \in Callers : pc[c] = "returned" /\ dest[c] = Complete(r)

\* C2: in every reachable state a directory at the final path
\* rpmdbs/<arch>/<digest> holds the complete content of that digest.
C2_FinalEntryComplete ==
    \A r \in Requests :
        fs[CachePath(r)].exists => fs[CachePath(r)].files = Complete(r)

\* C3: a setup_rpmdb call that returned without error left the complete rpmdb
\* of the digest in the caller's dest_dir, whatever the other callers did.
C3_ReturnedDestComplete ==
    \A c \in Callers : pc[c] = "returned" => dest[c] = Complete(req[c])

\* C10: a caller whose rename lost against a concurrent populator has removed
\* its temporary directory by the time setup_rpmdb returns.
C10_LoserDiscardsTmp ==
    \A c \in Callers : (pc[c] = "returned" /\ renameLost[c]) => ~fs[Tmp(c)].exists

\* C8 as stated: once a call for (arch, digest) has returned with usage below
\* the threshold, every later call for it finds the final entry and does not
\* go through the online extraction.
C8_LaterAcquiresHit ==
    \A c \in Callers :
        (Active(c) /\ everSettled[req[c]]) => (hit[c] /\ pc[c] \notin MissPath)

\* C8 as amended: once a call for (arch, digest) has returned with usage below
\* the threshold, and as long as no call for it has measured usage at or above
\* the threshold since, every later call finds the final entry and does not go
\* through the online extraction, the image is not copied again, and every
\* caller that returned has the same complete content in its dest_dir.
C8_HitUntilEvicted ==
    /\ \A c \in Callers :
        (Active(c) /\ settled[req[c]] >= 0) => (hit[c] /\ pc[c] \notin MissPath)
    /\ \A r \in Requests : settled[r] >= 0 => copies[r] = settled[r]
    /\ \A c \in Callers : pc[c] = "returned" => dest[c] = Complete(req[c])

\* two callers returned for the same image, the second from the cached entry,
\* after a single image copy
C8_Witness ==
    \E c, d \in Callers :
        /\ c # d /\ req[c] = req[d]
        /\ pc[c] = "returned" /\ pc[d] = "returned"
        /\ ~hit[c] /\ hit[d]
        /\ copies[req[c]] = 1 /\ settled[req[c]] = 1
        /\ dest[c] = Complete(req[c]) /\ dest[d] = dest[c]

Tasks == DOMAIN task

FailedTasks == {i \in Tasks : TaskFailed(i)}

\* the lockfile assembled from the results in ascending architecture order
SortedDocument == [i \in 1..Len(arches) |-> ArchResult(SortedArches(arches)[i])]

\* C4: the arches list of the written lockfile is in ascending architecture
\* order, the same document whichever task finished first.
C4_ArchesSorted == outfile.written => outfile.arches = SortedDocument

\* C5: the lockfile is written only after every architecture task succeeded; a
\* run with a failed task leaves the outfile untouched.
C5_NoPartialLockfile ==
    /\ FailedTasks # {} => ~outfile.written
    /\ (mpc = "write" \/ outfile.written) =>
           (Len(task) = Len(arches) /\ \A i \in Tasks : task[i] = "done")

\* the run ended with one task successful and collected and the other failed,
\* and nothing was written
C5_Witness ==
    /\ mpc = "exit" /\ exitCode = 1 /\ ~outfile.written
    /\ \E i, j \in Tasks : task[i] = "done" /\ TaskFailed(j) /\ Len(data) = 1

\* C6: the process exits only after every submitted task has run to completion;
\* a failure observed by the main thread stops no task.
C6_FailTogether ==
    exitCode # -1 => \A i \in Tasks : TaskFinished(i)

Position(i) == CHOOSE n \in 1..Len(completed) : completed[n] = i

\* the run failed on task j, and task i ran to completion after j had failed
C6_Witness ==
    /\ mpc = "exit" /\ exitCode = 1
    /\ \E i, j \in Tasks :
        /\ raised = {TaskError(j)}
        /\ task[i] = "done"
        /\ i \notin yielded
        /\ Position(j) < Position(i)

\* C7: when more than one architecture task failed, the failure that ends the
\* run carries the error of every failed task.
C7_AllErrorsSurfaced ==
    (exitCode = 1 /\ Cardinality(FailedTasks) > 1) =>
        {TaskError(i) : i \in FailedTasks} \subseteq raised

(***************************************************************************)
(* Claims about the temporary path and the eviction step                   *)
(***************************************************************************)
\* c is inside a populate attempt: tmp_cache is computed (line 68) and the
\* attempt has not yet left the rename
Populating(c) == pc[c] \in MissPath

\* C11: no two populate attempts for the same (arch, digest) that are in
\* progress at the same time use the same temporary path, be the callers
\* separate processes or threads of one process.
C11_TmpPathPrivate ==
    \A c, d \in Callers :
        (c # d /\ Populating(c) /\ Populating(d) /\ req[c] = req[d])
            => Tmp(c) # Tmp(d)

\* C12: setup_rpmdb asks the registry for the digest exactly when the given
\* reference has none, and the reference handed to _online_setup_rpmdb is the
\* given repository, '@', and the digest that names the cache entry (the given
\* digest when there is one), the tag dropped.
C12_PullsWhatCacheNames ==
    /\ inspected > 0 => given.digest = None
    /\ (rpc \in {"make", "exists", "online", "copytree"} /\ given.digest = None)
           => inspected = 1
    /\ rpc \in {"exists", "online", "copytree"} =>
           (given.digest # None => cacheKey = given.digest)
    /\ rpc = "online" => onlineRef = given.repo \o <<"@">> \o cacheKey

\* C13: the steps of the cleanup of a call (shutil.rmtree on its cache entry)
\* change nothing but the final-named entry of the call's own (arch, digest):
\* every dest_dir, every other entry and every temporary directory stay as
\* they are.
C13_EvictionFrame ==
    [][\A c \in Callers :
          (Evicting(c) /\ (pc'[c] # pc[c] \/ rmList'[c] # rmList[c]))
              => /\ dest' = dest
                 /\ \A p \in Paths \ {Cache(c)} : fs'[p] = fs[p]]_vars

\* a call evicted its entry and returned while the entry of another digest and
\* the temporary directory of another populator are on disk
C13_Witness ==
    \E c, d \in Callers : \E r \in Requests :
        /\ c # d /\ r # req[c]
        /\ pc[c] = "returned" /\ usage[c] >= USAGE_THRESHOLD
        /\ ~fs[Cache(c)].exists
        /\ dest[c] = Complete(req[c])
        /\ fs[CachePath(r)] = Dir(Complete(r))
        /\ Populating(d) /\ fs[Tmp(d)].exists

(***************************************************************************)
(* Claims about process_arch                                               *)
(***************************************************************************)
\* C14: with every rpmdb preparer, the temporary root directory of a task is
\* there while the resolver runs and is gone once the task has left the with
\* block, be it by returning, by an exception of the provisioning function or
\* by an exception of the resolver.
C14_TempRootScoped ==
    \A i \in Tasks :
        /\ task[i] = "resolver" => rootDir[i] = "exists"
        /\ TaskFinished(i) => rootDir[i] = "removed"

\* one task ended in the provisioning function, another in the resolver, and
\* both temporary roots are gone
C14_Witness ==
    /\ strategy = "image"
    /\ \E i, j \in Tasks :
        /\ task[i] = "failed_provision" /\ rootDir[i] = "removed"
        /\ task[j] = "failed_resolver" /\ rootDir[j] = "removed"

(***************************************************************************)
(* Claims about extract_image                                              *)
(***************************************************************************)
SetMin(S) == CHOOSE x \in S : \A y \in S : x <= y

SetMax(S) == CHOOSE x \in S : \A y \in S : x >= y

Ended == outcome.kind \notin {"parked", "running"}

\* the FROM lines of the file; the k-th of them opens stage k
FromLines == {i \in DOMAIN containerfile : containerfile[i].op = "FROM"}

\* stages whose FROM line has been read and expanded
StagesRead == {k \in 1..Len(fromLog) : fromLog[k].ok}

AllStagesRead == Cardinality(StagesRead) = Cardinality(FromLines)

AliasOf(k) == containerfile[fromLog[k].line].alias

AnyFilterGiven == stage_num.given \/ stage_name.given \/ image_pattern.given

\* stage k satisfies one of the filters that were passed
Satisfies(k) ==
    \/ stage_name.given /\ AliasOf(k) # "" /\ AliasOf(k) = stage_name.v
    \/ stage_num.given /\ stage_num.v = k
    \/ image_pattern.given /\ Search(image_pattern.v, fromLog[k].resolved)

\* C15: when a stage satisfies a given filter, extract_image returns the
\* resolved image of the first such stage in file order and reads no further.
C15_FirstMatchWins ==
    (outcome.kind = "ok" /\ \E k \in StagesRead : Satisfies(k)) =>
        LET k == SetMin({j \in StagesRead : Satisfies(j)}) IN
        /\ outcome.image = fromLog[k].resolved
        /\ Len(fromLog) = k

\* C16: with a filter given, a file that has a FROM line and no stage that
\* satisfies a given filter ends in the no-stage-matched error.
C16_NoStageMatched ==
    (/\ Ended /\ AnyFilterGiven
     /\ FromLines # {} /\ AllStagesRead
     /\ \A k \in StagesRead : ~Satisfies(k))
        => outcome.kind = "NoStageMatched"

\* C17: with no filter given, extract_image returns the resolved image of the
\* last FROM line, and raises the base-image error exactly when the file has
\* no FROM line.
C17_LastStage ==
    (Ended /\ ~AnyFilterGiven) =>
        /\ outcome.kind = "NoBaseImage" <=> FromLines = {}
        /\ outcome.kind = "ok" =>
               /\ AllStagesRead
               /\ outcome.image = fromLog[Len(fromLog)].resolved

\* earlier stages whose alias the expanded image of stage k names, whatever the case
NamedBy(k) ==
    {j \in 1..(k - 1) : AliasOf(j) # ""
                        /\ LowerText(fromLog[k].expanded) = Lit(Lower(AliasOf(j)))}

\* the external image stage k is built from
RECURSIVE ExternalOf(_)
ExternalOf(k) ==
    IF NamedBy(k) = {} THEN fromLog[k].expanded ELSE ExternalOf(SetMax(NamedBy(k)))

\* C18: the resolved image of every stage is the external image at the end of
\* its chain of stage aliases, aliases compared without regard to case, and
\* stage_bases holds that image under the alias of the stage.
C18_StagesResolveToExternal ==
    \A k \in StagesRead :
        /\ fromLog[k].resolved = ExternalOf(k)
        /\ \E j \in 1..k : NamedBy(j) = {} /\ fromLog[k].resolved = fromLog[j].expanded
        /\ (AliasOf(k) # "" /\ \A j \in StagesRead : j > k => AliasOf(j) # AliasOf(k))
               => stage_bases[Lower(AliasOf(k))] = [has |-> TRUE, image |-> ExternalOf(k)]

\* FROM ext1 AS b, FROM B AS c, FROM c: the third stage resolves to ext1
C18_Witness ==
    /\ Len(fromLog) = 3 /\ StagesRead = {1, 2, 3}
    /\ fromLog[2].expanded = Lit("B") /\ AliasOf(1) = "b"
    /\ fromLog[3].expanded = Lit("c") /\ AliasOf(2) = "c"
    /\ fromLog[3].resolved = Lit("ext1")
    /\ outcome = [kind |-> "ok", image |-> Lit("ext1"), name |-> ""]

\* positions of the references of a kind in text that have no value in args
UndefinedRefs(text, kind, args) ==
    {i \in DOMAIN text : text[i][1] = kind /\ IsNone(args, text[i][2])}

\* the argument the error has to name for a FROM image, "" when all have values
ExpectedUndefined(text, args) ==
    IF UndefinedRefs(text, "brace", args) # {}
    THEN text[SetMin(UndefinedRefs(text, "brace", args))][2]
    ELSE IF UndefinedRefs(text, "plain", args) # {}
         THEN text[SetMin(UndefinedRefs(text, "plain", args))][2]
         ELSE ""

\* C19: a FROM line fails exactly when its image references an argument with
\* no value, and the error names the leftmost such ${NAME}, or without one the
\* leftmost such $NAME; arguments the FROM line does not reference do not matter.
C19_UndefinedNamed ==
    \A k \in 1..Len(fromLog) :
        LET want == ExpectedUndefined(containerfile[fromLog[k].line].img, fromLog[k].args) IN
        /\ fromLog[k].ok <=> want = ""
        /\ ~fromLog[k].ok => (outcome.kind = "Undefined" /\ outcome.name = want)

ArgLinesOf(n, from, to) ==
    {j \in from..to : containerfile[j].op = "ARG" /\ containerfile[j].name = n}

DeclAt(j) == Declared(containerfile[j].hasValue, containerfile[j].value)

\* the declaration of n that applies to the FROM at line i: the latest one
\* since the previous FROM line, else the latest one before the first FROM line
ScopeAt(i, n) ==
    LET prev == SetMax({j \in FromLines : j < i} \cup {0})
        inStage == IF prev > 0 THEN ArgLinesOf(n, prev + 1, i - 1) ELSE {}
        global == ArgLinesOf(n, 1, SetMin(FromLines) - 1)
    IN IF inStage # {} THEN DeclAt(SetMax(inStage))
       ELSE IF global # {} THEN DeclAt(SetMax(global))
       ELSE Undeclared

\* C20: the arguments a FROM line is expanded with are, name by name, the
\* latest declaration of its own stage scope, else the latest global one; a
\* FROM ${NAME} whose declaration has no default fails naming NAME, and one
\* whose declaration has a literal value expands to that value.
C20_ArgScope ==
    \A k \in 1..Len(fromLog) :
        LET i == fromLog[k].line IN
        /\ \A n \in ArgNames : fromLog[k].args[n] = ScopeAt(i, n)
        /\ \A n \in ArgNames :
              containerfile[i].img = <<<<"brace", n>>>> =>
                  IF ~ScopeAt(i, n).hasValue
                  THEN ~fromLog[k].ok /\ outcome.kind = "Undefined" /\ outcome.name = n
                  ELSE (\A p \in DOMAIN ScopeAt(i, n).value : ScopeAt(i, n).value[p][1] = "lit")
                           => (fromLog[k].ok /\ fromLog[k].expanded = ScopeAt(i, n).value)

\* ARG A / FROM ext1 AS b / ARG A=ext1 / FROM ${A}: the stage declaration
\* applies to the second FROM, the global one without default does not
C20_Witness ==
    /\ Len(containerfile) = 4
    /\ containerfile[1] = ArgLine("A", FALSE, <<>>)
    /\ containerfile[3] = ArgLine("A", TRUE, Lit("ext1"))
    /\ containerfile[4] = FromLine(<<<<"brace", "A">>>>, "")
    /\ Len(fromLog) = 2 /\ fromLog[2].ok
    /\ fromLog[2].expanded = Lit("ext1")
    /\ outcome.kind = "ok"

(***************************************************************************)
(* Claims about subst_vars                                                 *)
(***************************************************************************)
\* subst_vars has returned
SubstDone == spos = Len(svars) + 1

\* the value vars holds for key k, None when k is not a key
ValueOf(d, k) ==
    IF \E i \in DOMAIN d : d[i][1] = k
    THEN (CHOOSE p \in {d[i] : i \in DOMAIN d} : p[1] = k)[2]
    ELSE None

\* the keys of d whose placeholder starts at position i of s
KeysAt(s, i, d) ==
    {d[n][1] : n \in {m \in DOMAIN d :
        /\ i + Len(d[m][1]) + 1 <= Len(s)
        /\ SubSeq(s, i, i + Len(d[m][1]) + 1) = Placeholder(d[m][1])}}

\* one scan of s from position i: a placeholder of a key gives way to the
\* key's value and the scan goes on behind the placeholder, never inside
\* the value; everything else is copied
RECURSIVE SinglePass(_, _, _)
SinglePass(s, i, d) ==
    IF i > Len(s)
    THEN <<>>
    ELSE IF KeysAt(s, i, d) # {}
         THEN LET k == CHOOSE k \in KeysAt(s, i, d) : TRUE IN
              ValueOf(d, k) \o SinglePass(s, i + Len(k) + 2, d)
         ELSE <<s[i]>> \o SinglePass(s, i + 1, d)

\* C21: what subst_vars returns is the single pass over the template: each
\* {k} of a key k replaced by vars[k], unknown placeholders verbatim, inserted
\* values never scanned, whatever the order of the keys
C21_SinglePassSubst == SubstDone => substituted = SinglePass(template, 1, svars)

\* the code's result for the pairs of svars taken in the opposite order
Reversed(d) == [i \in DOMAIN d |-> d[Len(d) + 1 - i]]

C21_OrderIndependent == SubstDone => substituted = SubstVars(template, Reversed(svars))

\* a value without any placeholder of a key in it
PlainValues(d) ==
    \A i \in DOMAIN d : \A j \in 1..Len(d[i][2]) : KeysAt(d[i][2], j, d) = {}

C21_PlainValuesSinglePass ==
    (SubstDone /\ PlainValues(svars)) => substituted = SinglePass(template, 1, svars)

(***************************************************************************)
(* Claims about image references                                           *)
(***************************************************************************)
\* C22: make_image_spec is the inverse of split_image: formatting what
\* split_image returned for a reference gives the reference back, and
\* splitting what make_image_spec built from a triple gives the triple back
C22_FormatInvertsParse ==
    /\ respec.kind = "ok" => respec.v = image_spec
    /\ resplit.kind # "unset" =>
        /\ resplit.kind = "ok"
        /\ resplit.repo = parts.repo
        /\ resplit.tag = parts.tag
        /\ resplit.digest = parts.digest

\* the two directions hold for the references without a ':' before the digest
C22_TaglessRoundTrip ==
    (parts.tag = None /\ ":" \notin {parts.repo[i] : i \in DOMAIN parts.repo})
        => C22_FormatInvertsParse

\* C23: strip_tag of a reference with a digest is repository@digest, the
\* repository being all of it, registry port and path included; a reference
\* without a digest comes back as it is
C23_StripTagDropsOnlyTag ==
    stripped.kind # "unset" =>
        /\ stripped.kind = "ok"
        /\ stripped.v = IF parts.digest # None
                        THEN parts.repo \o <<"@">> \o parts.digest
                        ELSE image_spec

\* the same for the repositories without a port
C23_PortlessStripTag ==
    ":" \notin {parts.repo[i] : i \in DOMAIN parts.repo} => C23_StripTagDropsOnlyTag

(***************************************************************************)
(* Claims about content origins                                            *)
(***************************************************************************)
\* the URL options a dict of options or a Repo carries
UrlKeys(d) ==
    {k \in {"baseurl", "metalink", "mirrorlist"} :
        CASE k = "baseurl" -> d.baseurl.kind # "absent"
          [] k = "metalink" -> d.metalink.kind # "absent"
          [] OTHER -> d.mirrorlist.kind # "absent"}

\* the option dicts handed to Repo.from_dict by the i-th item taken, up to
\* and including the one that raised
SectionsOf(i) ==
    IF collectLog[i].type = "repofiles" THEN collectLog[i].data[1] ELSE <<>>

\* C24: every Repository made has exactly one of baseurl, metalink and
\* mirrorlist; options with none of them end in the missing-URL error, and
\* options with more than one of them give no Repository
C24_ExactlyOneUrl ==
    /\ \A i \in DOMAIN repos : Cardinality(UrlKeys(repos[i])) = 1
    /\ \A i \in DOMAIN collectLog :
        /\ \A r \in DOMAIN collectLog[i].repos :
            Cardinality(UrlKeys(collectLog[i].repos[r])) = 1
        /\ (\E n \in DOMAIN SectionsOf(i) :
               /\ UrlKeys(SectionsOf(i)[n]) = {}
               /\ \A m \in 1..(n - 1) : Cardinality(UrlKeys(SectionsOf(i)[m])) = 1)
            => collectLog[i].err = "MissingUrl"

\* the half of C24 the constructor does enforce: at least one URL option
C24_AtLeastOneUrl ==
    /\ \A i \in DOMAIN repos : Cardinality(UrlKeys(repos[i])) >= 1
    /\ \A i \in DOMAIN collectLog :
        (\E n \in DOMAIN SectionsOf(i) : UrlKeys(SectionsOf(i)[n]) = {})
            => collectLog[i].err = "MissingUrl"

\* a declaration with exactly one URL option, a baseurl being one URL, and
\* neither varsFromImage nor varsFromContainerfile
SimpleDeclaration(d) ==
    /\ Cardinality(UrlKeys(d)) = 1
    /\ d.baseurl.kind = "str" => " " \notin {d.baseurl.v[1][i] : i \in DOMAIN d.baseurl.v[1]}
    /\ d.varsFromImage.kind = "absent"
    /\ d.varsFromContainerfile.kind = "absent"

\* the Repository the claim expects for a simple declaration
SimpleRepo(d) ==
    [repoid |-> d.repoid,
     baseurl |-> IF d.baseurl.kind = "str" THEN List(d.baseurl.v) ELSE Missing,
     metalink |-> d.metalink,
     mirrorlist |-> d.mirrorlist]

\* C25: RepoOrigin.collect of simple declarations yields, for each, the one
\* Repository with its repoid and its URL option, and looks up no image
C25_SimpleDeclarationCollected ==
    \A i \in DOMAIN collectLog :
        (/\ collectLog[i].type = "repos"
         /\ \A n \in DOMAIN collectLog[i].data : SimpleDeclaration(collectLog[i].data[n]))
        => /\ collectLog[i].err = "none"
           /\ collectLog[i].repos =
                 [n \in DOMAIN collectLog[i].data |-> SimpleRepo(collectLog[i].data[n])]
           /\ collectLog[i].lookups = 0

\* collect_content_origins has returned
OriginsReturned == oerr = "none" /\ opos = Len(origins) + 1

RECURSIVE Yields(_)
Yields(log) == IF log = <<>> THEN <<>> ELSE Head(log).repos \o Yields(Tail(log))

\* C26: every registered source type has its collector constructed and
\* used, the unknown-content-origin error is raised exactly for a source
\* type outside the registry, and what is returned is the collectors'
\* repositories one source type after the other in configuration order
C26_RegistryDispatch ==
    /\ \A i \in DOMAIN collectLog :
        /\ collectLog[i].type = origins[i][1]
        /\ collectLog[i].type \in Registry => collectLog[i].constructed
        /\ collectLog[i].err = "UnknownContentOrigin" <=> collectLog[i].type \notin Registry
    /\ oerr = "none" => repos = Yields(collectLog)
    /\ OriginsReturned => Len(collectLog) = Len(origins)

\* the same without the composes source type
C26_DispatchWithoutComposes ==
    (\A i \in DOMAIN origins : origins[i][1] # "composes") => C26_RegistryDispatch

(***************************************************************************)
(* Claims about filter_for_arch                                            *)
(***************************************************************************)
\* the set a present "only" or "not" stands for
ArchSet(value) == {value.v[i] : i \in DOMAIN value.v}

\* the entry passes for architecture a, as the claim reads
Passes(entry, a) ==
    \/ entry.kind = "str"
    \/ /\ entry.arches.only.kind = "absent" \/ a \in ArchSet(entry.arches.only)
       /\ entry.arches.not.kind = "absent" \/ a \notin ArchSet(entry.arches.not)

RECURSIVE NamesPassing(_, _)
NamesPassing(list, a) ==
    IF list = <<>>
    THEN <<>>
    ELSE (IF Passes(Head(list), a) THEN <<Head(list).name>> ELSE <<>>)
         \o NamesPassing(Tail(list), a)

\* C27: the names yielded are, in input order, those of the bare strings
\* and of the entries with (only absent or arch in only) and (not absent or
\* arch not in not), an empty list being a present empty set
C27_FilterForArch == kept = NamesPassing(SubSeq(pkgs, 1, fpos - 1), farch)

\* the same for the entries whose "only" is not an empty list
C27_NonEmptyOnly ==
    (\A i \in DOMAIN pkgs : pkgs[i].arches.only # List(<<>>)) => C27_FilterForArch

(***************************************************************************)
(* Claims about the caching wrapper                                        *)
(***************************************************************************)
\* the resolver runs if and only if the cache file was not there: never on
\* a hit, once on a miss, with the cache file as --outfile and the extra
\* arguments behind it
C28_RunIffMiss ==
    \A i \in Invocations :
        /\ sawCache[i] = "hit" => resolverRuns[i] = <<>>
        /\ wpc[i] \in {"hash", "exists", "run"} => resolverRuns[i] = <<>>
        /\ (sawCache[i] = "miss" /\ wpc[i] # "run") =>
              resolverRuns[i] = << <<<<"rpm-lockfile-prototype">>, <<"infile", i>>,
                                     <<"--outfile">>, InputDigest(argv[i])>>
                                   \o argv[i].rest >>

\* the output file is written by the copy only, as a copy of the cache file
C28_OutputCopied ==
    \A i \in Invocations :
        outp'[i] # outp[i] =>
            /\ wpc[i] = "copy"
            /\ outp'[i] = FileAt(results, cache_file[i])
            /\ outp'[i].exists

\* inputs with different content have different cache files
C28_DistinctCacheFiles ==
    \A i, j \in Invocations :
        (/\ cache_file[i] # None
         /\ cache_file[j] # None
         /\ argv[i].content # argv[j].content) => cache_file[i] # cache_file[j]

\* C28: for a cache key the resolver is run iff no cached result exists: on
\* a hit it is not invoked and the output is a copy of the cached file, on a
\* miss it is invoked once with the cache file as --outfile and the extra
\* arguments passed through and the output is copied from that file; inputs
\* with different content get different cache files
C28_CachingWrapper ==
    /\ [](C28_RunIffMiss /\ C28_DistinctCacheFiles)
    /\ [][C28_OutputCopied]_vars

\* the same, different content counted only between invocations with the
\* same extra arguments
C28_SameArguments ==
    /\ [](C28_RunIffMiss /\
          \A i, j \in Invocations :
              (/\ cache_file[i] # None
               /\ cache_file[j] # None
               /\ argv[i].rest = argv[j].rest
               /\ argv[i].content # argv[j].content) => cache_file[i] # cache_file[j])
    /\ [][C28_OutputCopied]_vars

(***************************************************************************)
(* Claims about the architecture names                                     *)
(***************************************************************************)
\* C29: the image copy is asked for the mapped architecture (amd64 for
\* x86_64, arm64 for aarch64, any other name as requested), the cache entry
\* is <root>/rpmdbs/<arch>/<digest> with the requested name, and no other
\* requested architecture has the same cache entry
C29_ArchNames ==
    /\ copyArch # "" =>
          copyArch = CASE arch = "x86_64" -> "amd64"
                       [] arch = "aarch64" -> "arm64"
                       [] OTHER -> arch
    /\ cachePath # None =>
          /\ cachePath = <<"rpmdbs", arch, digest>>
          /\ \A a \in RequestedArches \ {arch} : CacheEntry(a, digest) # cachePath

\* x86_64 was requested, the image is copied as amd64 into the x86_64 entry
C29_Witness ==
    /\ arch = "x86_64"
    /\ rpc = "online"
    /\ copyArch = "amd64"
    /\ cachePath[2] = "x86_64"

(***************************************************************************)
(* Claims about the layer extraction                                       *)
(***************************************************************************)
\* every layer was extracted
LayersExtracted == ~layerErr /\ layerNo = Len(manifest) + 1

UnderRpmdbRoot(path) == \E root \in RPMDB_PATHS : IsRelativeTo(path, root)

\* the layers with a member at path
LayersWith(path) == {i \in DOMAIN manifest : path \in manifest[i]}

\* a path written without ".."
Plain(path) == \A i \in DOMAIN path : path[i] # ".."

\* C30: after the extraction every path under a candidate rpmdb root holds
\* the content of the last layer, in manifest order, with a member at that
\* path, and no file lies outside every candidate rpmdb root
C30_LastLayerWins ==
    LayersExtracted =>
        /\ \A path \in {n \in MemberNames : Plain(n) /\ UnderRpmdbRoot(n)} :
            LayersWith(path) # {} =>
                \E f \in destTree :
                    /\ f[1] = path
                    /\ f[2] = CHOOSE i \in LayersWith(path) : \A j \in LayersWith(path) : j <= i
        /\ \A f \in destTree : UnderRpmdbRoot(f[1])

\* the same for archives whose member names have no ".." in them
C30_PlainNames ==
    (\A i \in DOMAIN manifest : \A n \in manifest[i] : Plain(n)) => C30_LastLayerWins

(***************************************************************************)
(* Claims about the rpmdb symlink                                          *)
(***************************************************************************)
\* the candidate paths that hold a file of the image
Populated == {root \in RPMDB_PATHS : \E f \in destTree : IsRelativeTo(f[1], root)}

\* the files below root, named from root
RpmdbAt(tree, root) == Moved(tree, root, <<>>)

\* the link at utils.RPMDB_PATH is relative and leads to a populated candidate
\* path from both places the tree is in
CompatLinked ==
    \E l \in links : \E root \in Populated :
        /\ l[1] = rpmdbPath
        /\ Head(l[2]) # "/"
        /\ ResolveLink(TmpCache \o l[1], l[2]) = TmpCache \o root
        /\ ResolveLink(FinalCache \o l[1], l[2]) = FinalCache \o root

\* C31: for an image that populates a candidate path, after the copy to the
\* destination the expected rpmdb path holds the rpmdb of a populated
\* candidate path; a relative symlink to a populated candidate path was
\* created when the image did not populate the expected path, and no
\* symlink when it did
C31_CompatSymlink ==
    (layerPc \in {"copied", "failed"} /\ Populated # {}) =>
        /\ layerPc = "copied"
        /\ \E root \in Populated : RpmdbAt(copied, rpmdbPath) = RpmdbAt(destTree, root)
        /\ rpmdbPath \in Populated => links = {}
        /\ rpmdbPath \notin Populated => CompatLinked

\* the same for images whose member names have no ".." in them
C31_PlainNames ==
    (\A i \in DOMAIN manifest : \A n \in manifest[i] : Plain(n)) => C31_CompatSymlink

\* a symlink was created and the tree was copied to the destination
C31_Linked == layerPc = "copied" /\ links # {} /\ Populated # {}

\* an image populating a candidate path other than the expected one, with a
\* member climbing out of the expected one, was copied
C31_Climbing ==
    /\ layerPc = "copied"
    /\ Populated # {}
    /\ rpmdbPath \notin Populated
    /\ rpmdbPath \in dbpaths

(***************************************************************************)
(* Claims about the HTTP requests of the content origins                   *)
(***************************************************************************)
\* every request issued so far has a connect and a read timeout
FiniteTimeouts == \A i \in DOMAIN issued : issued[i].timeout # NoTimeout

\* the collector has ended, or a step of it or of its request is possible
NotStuck == hpc \in {"finished", "raised"} \/ ENABLED NextHttp

\* C32: every request of a content-origin collector (the .repo file fetch,
\* the compose requests by id and by latest filter) has a finite connect
\* and read timeout, and a collector never waits forever on a server that
\* does not answer
C32_RequestsTimeOut == FiniteTimeouts /\ NotStuck

\* the same for the .repo file fetch alone
C32_RepofileTimesOut ==
    (\A i \in DOMAIN hsources : hsources[i].kind = "repofile") => C32_RequestsTimeOut

\* a .repo file fetch ended by its timeout
C32_RepofileTimedOut ==
    /\ hpc = "raised"
    /\ hreq.to = "repofile"
    /\ hsources[hpos].server \in {"accepts", "silent"}

(***************************************************************************)
(* Claims about ComposeOrigin.collect_from_url                             *)
(***************************************************************************)
\* the repository path of one architecture with the name of the
\* architecture replaced by $basearch
Reduced(variant, ar) == Replace(variant.repository[ar], ar, BASEARCH)

\* the repository paths of the variant reduce to one and the same path
ReducesToOne(variant) ==
    /\ DOMAIN variant.repository # {}
    /\ \A a, b \in DOMAIN variant.repository : Reduced(variant, a) = Reduced(variant, b)

\* the Repo the variant stands for
ExpectedRepo(variant) ==
    LET ar == CHOOSE a \in DOMAIN variant.repository : TRUE IN
    [repoid |-> compose.id \o <<"-">> \o variant.uid \o <<"-", "r", "p", "m", "s">>,
     baseurl |-> <<compose.compose_path \o <<"/">> \o Reduced(variant, ar)>>]

ComposeReturned == cerr = "none" /\ vpos = Len(compose.variants) + 1

\* C33: collect_from_url yields one Repo per variant, in variant order, with
\* repoid <compose id>-<variant uid>-rpms and baseurl <compose path>/<the
\* $basearch path>; it raises when the paths of a variant do not reduce to
\* one $basearch path, and yields nothing for a compose without variants
C33_RepoPerVariant ==
    /\ \A i \in DOMAIN crepos : crepos[i] = ExpectedRepo(compose.variants[i])
    /\ Len(crepos) = vpos - 1
    /\ ComposeReturned => Len(crepos) = Len(compose.variants)
    /\ cerr # "none" => ~ReducesToOne(compose.variants[vpos])
    /\ (\E i \in DOMAIN compose.variants : ~ReducesToOne(compose.variants[i]))
           => ~ComposeReturned
    /\ compose.variants = <<>> => crepos = <<>>

\* a compose of two variants was collected, one of them with two architectures
C33_Witness ==
    /\ ComposeReturned
    /\ Len(crepos) = MaxVariants
    /\ \E i \in DOMAIN compose.variants :
           Cardinality(DOMAIN compose.variants[i].repository) = 2

(***************************************************************************)
(* Claims about racing evictions                                           *)
(***************************************************************************)
\* c and d each made one call for the same entry, one of them found the
\* entry in the cache (so neither renamed after the other's copy began),
\* and both measured the disk at or above the threshold
BothEvict(c, d) ==
    /\ c # d
    /\ req[c] = req[d]
    /\ calls[c] = 1 /\ calls[d] = 1
    /\ hit[c] \/ hit[d]
    /\ ShouldCleanup(usage[c]) /\ ShouldCleanup(usage[d])

\* C34: when two calls for the same (arch, digest) both measure the disk at
\* or above the threshold after their copy, neither ends with an exception,
\* however the steps of their two rmtree calls interleave
C34_RacingEvictionsReturn ==
    \A c, d \in Callers : BothEvict(c, d) => pc[c] # "failed"

(***************************************************************************)
(* Claims about failed populate attempts                                   *)
(***************************************************************************)
\* a populate attempt of c fails in this step: the error is not swallowed
\* and the final path is as it was
FailureIsClean ==
    \A c \in Callers :
        (pc[c] \in {"copy_image", "extract"} /\ pc'[c] = "failed")
            => (err'[c] # "none" /\ fs'[Cache(c)] = fs[Cache(c)])

\* no call was stopped by what an earlier attempt left at its temporary path
NoLeftoverInTheWay == \A c \in Callers : err[c] # "FileExistsError"

\* C35: a populate attempt that fails part-way raises, creates no final
\* entry, and leaves nothing that stops a later call for the same
\* (arch, digest), made by a process of the same pid or another, from
\* populating the entry
C35_FailedPopulateRecoverable ==
    /\ [][FailureIsClean]_vars
    /\ []NoLeftoverInTheWay

\* the same, for later calls from processes of another pid only
C35_OtherProcessRecovers ==
    /\ [][FailureIsClean]_vars
    /\ []((pid[1] # pid[2] /\ \A c \in Callers : calls[c] <= 1) => NoLeftoverInTheWay)

\* a call populated the entry after an attempt of another process failed
C35_Recovered ==
    \E c, d \in Callers :
        /\ pid[c] # pid[d] /\ req[c] = req[d]
        /\ pc[c] = "failed" /\ err[c] \in {"CalledProcessError", "TarError"}
        /\ pc[d] = "returned" /\ ~hit[d] /\ err[d] = "none"
        /\ calls[c] = 1 /\ calls[d] = 1

(***************************************************************************)
(* Claims about the completeness of the wrapper's output                   *)
(***************************************************************************)
\* the output file of i, once written, is a whole lockfile
OutputWhole(i) == outp[i].exists => outp[i].complete

\* C36: the output file of the caching wrapper is always a copy of a
\* complete lockfile that a successful resolver run wrote for the cache key:
\* never of a cache file that is being written or was left incomplete
C36_OutputComplete == \A i \in Invocations : OutputWhole(i)

\* the same for an invocation that shares its cache file with no other
C36_OwnCacheFile ==
    \A i \in Invocations :
        (\A j \in Invocations \ {i} : InputDigest(argv[j]) # InputDigest(argv[i]))
            => OutputWhole(i)

\* an invocation copied the whole lockfile another one's resolver wrote
C36_CopiedFromOther ==
    \E i \in Invocations :
        sawCache[i] = "hit" /\ wpc[i] = "done" /\ outp[i].complete

(***************************************************************************)
(* Claims about repeated architectures                                     *)
(***************************************************************************)
\* the distinct architectures requested
RequestedSet == {arches[k] : k \in DOMAIN arches}

\* the task is in process_arch
TaskRunning(i) == task[i] \in {"provision", "resolver"}

\* the entries of the document for architecture a
EntriesFor(doc, a) == {k \in DOMAIN doc : doc[k].arch = a}

\* C37: main runs one task per distinct requested architecture, no two
\* tasks of a run work on the same architecture at the same time, and the
\* lockfile has one entry per distinct requested architecture, also when
\* an architecture is requested more than once
C37_OneTaskPerArch ==
    /\ \A i, j \in DOMAIN futures : i # j => futures[i] # futures[j]
    /\ \A i, j \in DOMAIN task :
           (i # j /\ TaskRunning(i) /\ TaskRunning(j)) => futures[i] # futures[j]
    /\ mpc # "submit" /\ raised = {} =>
           {futures[i] : i \in DOMAIN futures} = RequestedSet
    /\ outfile.written =>
           /\ Len(outfile.arches) = Cardinality(RequestedSet)
           /\ \A a \in RequestedSet : Cardinality(EntriesFor(outfile.arches, a)) = 1

\* the same when no architecture is requested twice
C37_DistinctRequests ==
    (\A i, j \in DOMAIN arches : i # j => arches[i] # arches[j]) => C37_OneTaskPerArch

\* a lockfile for two different architectures was written
C37_TwoArches == outfile.written /\ Cardinality(RequestedSet) = MaxArches

(***************************************************************************)
(* Claims about the order in which extract_image reads the FROM lines       *)
(***************************************************************************)
\* the line of the k-th FROM instruction of the file
FromLineNo(k) ==
    CHOOSE i \in FromLines : Cardinality({j \in FromLines : j <= i}) = k

\* the FROM instruction at line i references an argument that has no value in
\* the scope of that line
ReferencesUndefined(i) ==
    \E p \in DOMAIN containerfile[i].img :
        /\ containerfile[i].img[p][1] \in {"brace", "plain"}
        /\ ~ScopeAt(i, containerfile[i].img[p][2]).hasValue

\* the FROM lines are read one after the other, none left out
InFileOrder == \A k \in 1..Len(fromLog) : fromLog[k].line = FromLineNo(k)

\* a FROM line with an undefined reference that no selected stage precedes
\* makes the call fail
EarlierUndefinedFails ==
    Ended =>
        \A i \in FromLines :
            (/\ ReferencesUndefined(i)
             /\ \A k \in StagesRead : fromLog[k].line < i => ~Satisfies(k))
                => outcome.kind = "Undefined"

\* nothing is read after the first stage that satisfies a given filter
StopsAtSelected == \A k \in StagesRead : Satisfies(k) => Len(fromLog) = k

\* stage k satisfies a filter whose value the code takes for true
SatisfiesTruthy(k) ==
    \/ NameTruthy(stage_name) /\ AliasOf(k) = stage_name.v
    \/ stage_num.given /\ stage_num.v = k
    \/ PatternTruthy(image_pattern) /\ Search(image_pattern.v, fromLog[k].resolved)

\* C38: extract_image expands the FROM lines in file order and stops at the
\* first stage that satisfies a given filter: a FROM line before that stage
\* that references an argument without a value fails the call, and no FROM
\* line after that stage is expanded, so none of them can fail it.
C38_ExpandsUpToSelected ==
    /\ InFileOrder
    /\ EarlierUndefinedFails
    /\ StopsAtSelected

\* the same with the filters whose value is not empty: the scan stops at the
\* first stage the code selects and earlier undefined references fail
C38_NonEmptyFilters ==
    /\ InFileOrder
    /\ EarlierUndefinedFails
    /\ \A k \in StagesRead : SatisfiesTruthy(k) => Len(fromLog) = k

\* FROM ext1 AS b was selected by the image pattern and the FROM ${A} after
\* it, with A undeclared, was never expanded
C38_LaterNotExpanded ==
    /\ Len(containerfile) >= 2
    /\ containerfile[1] = FromLine(Lit("ext1"), "b")
    /\ containerfile[2] = FromLine(<<<<"brace", "A">>>>, "")
    /\ image_pattern = [given |-> TRUE, v |-> Lit("ext1")]
    /\ outcome = [kind |-> "ok", image |-> Lit("ext1"), name |-> ""]
    /\ Len(fromLog) = 1

\* FROM ${A} with A undeclared precedes the stage asked for by name and the
\* call failed naming A
C38_EarlierFailed ==
    /\ Len(containerfile) >= 2
    /\ containerfile[1] = FromLine(<<<<"brace", "A">>>>, "")
    /\ containerfile[2] = FromLine(Lit("B"), "c")
    /\ stage_name = [given |-> TRUE, v |-> "c"]
    /\ outcome = [kind |-> "Undefined", image |-> <<>>, name |-> "A"]

====
